---- MODULE Spec2Model ----
(***************************************************************************)
(* kubectl-rltop: model of the resource aggregation layer (pkg) used by   *)
(* the pod and node "top" commands.                                       *)
(*                                                                         *)
(*   Spec         AggregatePodResourcesByNode and GetPodResources applied  *)
(*                to a pod listing returned by the API server.             *)
(*   SpecPercent  CalculateNodePercentages applied to a node record and a  *)
(*                usage sample.                                            *)
(*   SpecFormat   one call of a formatter: formatCPU, formatMemory,         *)
(*                FormatResourceQuantity, FormatMemoryInUnit,              *)
(*                ExtractMemoryUnit.                                       *)
(*   SpecCombine  combineMetricsAndResources (pod command) applied to the  *)
(*                results of GetPodMetrics and GetPodResources, or         *)
(*                combineNodeMetricsAndResources (node command) applied to *)
(*                the results of GetNodeMetrics,                           *)
(*                AggregatePodResourcesByNode and GetNodeResources.        *)
(*   SpecDisplay  a formatter call or a combiner call.                     *)
(*   SpecSort     a sort of the rows a combiner built.                     *)
(*   SpecParse    a call of a function that reads a display string.        *)
(*   SpecRun      RunPod or RunNode with its fetch goroutines;             *)
(*                SpecRunFair adds the fairness of the scheduler.          *)
(*   SpecFetch    a call of a fetcher with a list of names.                *)
(***************************************************************************)
EXTENDS Integers, Naturals, Sequences, FiniteSets, TLC

VARIABLES
    pc,               \* position of the modelled call
    podList,          \* podList.Items as returned by Pods("").List
    nodeResources,    \* map returned by AggregatePodResourcesByNode
    resources,        \* slice returned by GetPodResources
    err,              \* error returned by the call ("" is nil)
    node,             \* *corev1.Node handed to CalculateNodePercentages
    cpuUsageMilli,    \* its cpuUsageMilli argument
    memoryUsageBytes, \* its memoryUsageBytes argument
    showCapacity,     \* its showCapacity argument
    cpuPercent,       \* first result of CalculateNodePercentages
    memoryPercent,    \* second result of CalculateNodePercentages
    call,             \* the function called and its scalar arguments
    result,           \* the string a formatter returned
    metrics,          \* slice returned by GetPodMetrics / GetNodeMetrics
    nodes,            \* map returned by GetNodeResources
    combined,         \* slice returned by a combiner
    metricsList,      \* Items of the listing returned by the Metrics API
    nodeList,         \* Items of the listing returned by Nodes().List
    loopI,            \* i, the counter of the wait loop of RunPod / RunNode
    goroutine,        \* position and outcome of each fetch goroutine
    chans,            \* buffer of each channel made by RunPod / RunNode
    received,         \* the result channels the wait loop has received from
    output            \* what the command has written to stdout and stderr

vars == <<pc, podList, nodeResources, resources, err, node, cpuUsageMilli,
          memoryUsageBytes, showCapacity, cpuPercent, memoryPercent,
          call, result, metrics, nodes, combined, metricsList, nodeList,
          loopI, goroutine, chans, received, output>>

podVars == <<podList, nodeResources, resources>>
pctVars == <<node, cpuUsageMilli, memoryUsageBytes, showCapacity,
             cpuPercent, memoryPercent>>
fmtVars == <<call, result>>
cmbVars == <<metrics, nodes, combined, metricsList, nodeList>>
runVars == <<loopI, goroutine, chans, received, output>>

(***************************************************************************)
(* Bounds of the model.                                                    *)
(***************************************************************************)
MaxPods == 2
MaxContainers == 2
MaxInitContainers == 2
MaxUsageMilli == 24
MaxTotalMilli == 40
MaxMillicores == 2100
MaxSpan == 30
MaxMetrics == 2

(***************************************************************************)
(* resource.Quantity in its int64Amount form: value * 10^scale.            *)
(* CPU quantities are cores ("100m" is 100 * 10^-3), memory is bytes.      *)
(***************************************************************************)
ResourceCPU == "cpu"
ResourceMemory == "memory"

Q(v, s) == [value |-> v, scale |-> s]

\* the zero value of resource.Quantity (an unset struct field, a missing map key)
ZeroQuantity == Q(0, 0)

RECURSIVE Pow10(_)
Pow10(n) == IF n <= 0 THEN 1 ELSE 10 * Pow10(n - 1)

MinScale(a, b) == IF a.scale < b.scale THEN a.scale ELSE b.scale

\* the value of a at the (not larger) scale s, exact
ScaleDown(a, s) == a.value * Pow10(a.scale - s)

\* Quantity.Add: int64Amount.Add keeps the other operand when one is zero and
\* otherwise adds at the smaller of the two scales.
QuantityAdd(a, b) ==
    IF b.value = 0 THEN a
    ELSE IF a.value = 0 THEN b
    ELSE Q(ScaleDown(a, MinScale(a, b)) + ScaleDown(b, MinScale(a, b)),
           MinScale(a, b))

\* Quantity.Cmp: -1, 0 or 1
QuantityCmp(a, b) ==
    LET x == ScaleDown(a, MinScale(a, b))
        y == ScaleDown(b, MinScale(a, b))
    IN  IF x < y THEN -1 ELSE IF x > y THEN 1 ELSE 0

\* Quantity.IsZero
IsZero(a) == a.value = 0

\* int64Amount.AsScaledInt64: the value at scale s, rounded up when the
\* quantity is finer than s (quantities of the model are non-negative)
AsScaledInt64(a, s) ==
    IF a.scale >= s
    THEN a.value * Pow10(a.scale - s)
    ELSE LET d == Pow10(s - a.scale)
         IN  (a.value + d - 1) \div d

\* Quantity.MilliValue and Quantity.Value
MilliValue(a) == AsScaledInt64(a, -3)
Value(a) == AsScaledInt64(a, 0)

(***************************************************************************)
(* corev1.ResourceList: a Go map, possibly nil.                            *)
(***************************************************************************)
NilList == [isNil |-> TRUE, items |-> <<>>]
List(f) == [isNil |-> FALSE, items |-> f]

\* the "v, ok := m[k]" lookup: ok
Has(rl, k) == k \in DOMAIN rl.items
\* the "m[k]" lookup: the zero Quantity for a missing key or a nil map
Get(rl, k) == IF Has(rl, k) THEN rl.items[k] ELSE ZeroQuantity

Container(req, lim) == [Requests |-> req, Limits |-> lim]

\* corev1.Pod: metadata.name, metadata.namespace, spec.nodeName,
\* spec.containers, spec.initContainers
Pod(name, n, cs, ics) ==
    [Name |-> name, Namespace |-> "default", NodeName |-> n,
     Containers |-> cs, InitContainers |-> ics]

(***************************************************************************)
(* AggregatePodResourcesByNode                                             *)
(***************************************************************************)
NewNodeAggregatedResources(n) ==
    [NodeName |-> n, CPURequest |-> ZeroQuantity, CPULimit |-> ZeroQuantity,
     MemoryRequest |-> ZeroQuantity, MemoryLimit |-> ZeroQuantity]

\* AddContainer with the memory limit added to the memory request total
AddContainer_MemoryLimitIntoRequest(r, c) ==
    LET r1 == IF ~c.Requests.isNil /\ Has(c.Requests, ResourceCPU)
              THEN [r EXCEPT !.CPURequest =
                        QuantityAdd(@, c.Requests.items[ResourceCPU])]
              ELSE r
        r2 == IF ~c.Requests.isNil /\ Has(c.Requests, ResourceMemory)
              THEN [r1 EXCEPT !.MemoryRequest =
                        QuantityAdd(@, c.Requests.items[ResourceMemory])]
              ELSE r1
        r3 == IF ~c.Limits.isNil /\ Has(c.Limits, ResourceCPU)
              THEN [r2 EXCEPT !.CPULimit =
                        QuantityAdd(@, c.Limits.items[ResourceCPU])]
              ELSE r2
    IN  IF ~c.Limits.isNil /\ Has(c.Limits, ResourceMemory)
        THEN [r3 EXCEPT !.MemoryRequest =
                  QuantityAdd(@, c.Limits.items[ResourceMemory])]
        ELSE r3

\* body of "for _, container := range pod.Spec.Containers" on the entry r
AddContainer(r, c) ==
    LET r1 == IF ~c.Requests.isNil /\ Has(c.Requests, ResourceCPU)
              THEN [r EXCEPT !.CPURequest =
                        QuantityAdd(@, c.Requests.items[ResourceCPU])]
              ELSE r
        r2 == IF ~c.Requests.isNil /\ Has(c.Requests, ResourceMemory)
              THEN [r1 EXCEPT !.MemoryRequest =
                        QuantityAdd(@, c.Requests.items[ResourceMemory])]
              ELSE r1
        r3 == IF ~c.Limits.isNil /\ Has(c.Limits, ResourceCPU)
              THEN [r2 EXCEPT !.CPULimit =
                        QuantityAdd(@, c.Limits.items[ResourceCPU])]
              ELSE r2
    IN  IF ~c.Limits.isNil /\ Has(c.Limits, ResourceMemory)
        THEN [r3 EXCEPT !.MemoryLimit =
                  QuantityAdd(@, c.Limits.items[ResourceMemory])]
        ELSE r3

\* MaxInitContainer with init requests added to the totals instead of compared
MaxInitContainer_Adds(r, c) ==
    LET r1 == IF ~c.Requests.isNil /\ Has(c.Requests, ResourceCPU)
              THEN [r EXCEPT !.CPURequest =
                        QuantityAdd(@, c.Requests.items[ResourceCPU])]
              ELSE r
    IN  IF ~c.Requests.isNil /\ Has(c.Requests, ResourceMemory)
        THEN [r1 EXCEPT !.MemoryRequest =
                  QuantityAdd(@, c.Requests.items[ResourceMemory])]
        ELSE r1

\* MaxInitContainer with the max rule applied to the limits as well
MaxInitContainer_AlsoLimits(r, c) ==
    LET r1 == IF /\ ~c.Requests.isNil
                 /\ Has(c.Requests, ResourceCPU)
                 /\ QuantityCmp(c.Requests.items[ResourceCPU], r.CPURequest) > 0
              THEN [r EXCEPT !.CPURequest = c.Requests.items[ResourceCPU]]
              ELSE r
        r2 == IF /\ ~c.Requests.isNil
                 /\ Has(c.Requests, ResourceMemory)
                 /\ QuantityCmp(c.Requests.items[ResourceMemory], r1.MemoryRequest) > 0
              THEN [r1 EXCEPT !.MemoryRequest = c.Requests.items[ResourceMemory]]
              ELSE r1
        r3 == IF /\ ~c.Limits.isNil
                 /\ Has(c.Limits, ResourceCPU)
                 /\ QuantityCmp(c.Limits.items[ResourceCPU], r2.CPULimit) > 0
              THEN [r2 EXCEPT !.CPULimit = c.Limits.items[ResourceCPU]]
              ELSE r2
    IN  IF /\ ~c.Limits.isNil
           /\ Has(c.Limits, ResourceMemory)
           /\ QuantityCmp(c.Limits.items[ResourceMemory], r3.MemoryLimit) > 0
        THEN [r3 EXCEPT !.MemoryLimit = c.Limits.items[ResourceMemory]]
        ELSE r3

\* MaxInitContainer with every declared init request replacing the total
MaxInitContainer_AlwaysReplaces(r, c) ==
    LET r1 == IF ~c.Requests.isNil /\ Has(c.Requests, ResourceCPU)
              THEN [r EXCEPT !.CPURequest = c.Requests.items[ResourceCPU]]
              ELSE r
    IN  IF ~c.Requests.isNil /\ Has(c.Requests, ResourceMemory)
        THEN [r1 EXCEPT !.MemoryRequest = c.Requests.items[ResourceMemory]]
        ELSE r1

\* body of "for _, container := range pod.Spec.InitContainers" on the entry r
MaxInitContainer(r, c) ==
    LET r1 == IF /\ ~c.Requests.isNil
                 /\ Has(c.Requests, ResourceCPU)
                 /\ QuantityCmp(c.Requests.items[ResourceCPU], r.CPURequest) > 0
              THEN [r EXCEPT !.CPURequest = c.Requests.items[ResourceCPU]]
              ELSE r
    IN  IF /\ ~c.Requests.isNil
           /\ Has(c.Requests, ResourceMemory)
           /\ QuantityCmp(c.Requests.items[ResourceMemory], r1.MemoryRequest) > 0
        THEN [r1 EXCEPT !.MemoryRequest = c.Requests.items[ResourceMemory]]
        ELSE r1

RECURSIVE ContainersLoop(_, _, _)
ContainersLoop(r, cs, i) ==
    IF i > Len(cs) THEN r ELSE ContainersLoop(AddContainer(r, cs[i]), cs, i + 1)

RECURSIVE InitContainersLoop(_, _, _)
InitContainersLoop(r, cs, i) ==
    IF i > Len(cs) THEN r
    ELSE InitContainersLoop(MaxInitContainer(r, cs[i]), cs, i + 1)

\* AggregatePod without the skip of pods that have no node assigned
AggregatePod_KeepsUnscheduled(m, pod) ==
    LET n == pod.NodeName
        m1 == IF n \in DOMAIN m THEN m
              ELSE [k \in DOMAIN m \cup {n} |->
                       IF k = n THEN NewNodeAggregatedResources(n) ELSE m[k]]
        r1 == ContainersLoop(m1[n], pod.Containers, 1)
        r2 == InitContainersLoop(r1, pod.InitContainers, 1)
    IN  [m1 EXCEPT ![n] = r2]

\* one iteration of "for _, pod := range podList.Items" on the map m
AggregatePod(m, pod) ==
    IF pod.NodeName = "" THEN m
    ELSE LET n == pod.NodeName
             m1 == IF n \in DOMAIN m THEN m
                   ELSE [k \in DOMAIN m \cup {n} |->
                            IF k = n THEN NewNodeAggregatedResources(n) ELSE m[k]]
             r1 == ContainersLoop(m1[n], pod.Containers, 1)
             r2 == InitContainersLoop(r1, pod.InitContainers, 1)
         IN  [m1 EXCEPT ![n] = r2]

RECURSIVE AggregateLoop(_, _, _)
AggregateLoop(m, pods, i) ==
    IF i > Len(pods) THEN m
    ELSE AggregateLoop(AggregatePod(m, pods[i]), pods, i + 1)

\* the map the function returns for a listing that succeeded
AggregatePodResourcesByNode(pods) == AggregateLoop(<<>>, pods, 1)

(***************************************************************************)
(* FormatResourceQuantity                                                  *)
(***************************************************************************)
\* removeInt64Factors(value, 10) on a positive value: <<result, times>>
RECURSIVE RemoveFactors10(_, _)
RemoveFactors10(v, times) ==
    IF v >= 10 /\ v % 10 = 0 THEN RemoveFactors10(v \div 10, times + 1)
    ELSE <<v, times>>

\* the SI suffix of a decimal exponent that is a multiple of three
DecimalSuffix(e) ==
    CASE e = -9 -> "n" [] e = -6 -> "u" [] e = -3 -> "m" [] e = 0 -> ""
      [] e = 3 -> "k" [] e = 6 -> "M" [] e = 9 -> "G" [] OTHER -> "e" \o ToString(e)

\* Quantity.String for a quantity in DecimalSI format (int64Amount.
\* AsCanonicalBytes): strip the factors of ten, move the exponent down to a
\* multiple of three, print mantissa and suffix
QuantityString(a) ==
    IF a.value = 0 THEN "0"
    ELSE LET f == RemoveFactors10(a.value, 0)
             e == a.scale + f[2]
             r == ((e % 3) + 3) % 3
         IN  ToString(f[1] * Pow10(r)) \o DecimalSuffix(e - r)

FormatResourceQuantity(q, isCPU) ==
    IF IsZero(q) THEN "-"
    ELSE IF isCPU
         THEN LET millicores == MilliValue(q)
              IN  IF millicores = 0 THEN "0m"
                  ELSE ToString(millicores) \o "m"
         ELSE QuantityString(q)

(***************************************************************************)
(* GetPodResources                                                         *)
(***************************************************************************)
\* the four totals declared at the top of the per-pod loop body
NewTotals ==
    [totalCPURequest |-> ZeroQuantity, totalCPULimit |-> ZeroQuantity,
     totalMemoryRequest |-> ZeroQuantity, totalMemoryLimit |-> ZeroQuantity]

\* body of "for _, container := range pod.Spec.Containers" on the totals t
PodAddContainer(t, c) ==
    LET t1 == IF ~c.Requests.isNil /\ Has(c.Requests, ResourceCPU)
              THEN [t EXCEPT !.totalCPURequest =
                        QuantityAdd(@, c.Requests.items[ResourceCPU])]
              ELSE t
        t2 == IF ~c.Requests.isNil /\ Has(c.Requests, ResourceMemory)
              THEN [t1 EXCEPT !.totalMemoryRequest =
                        QuantityAdd(@, c.Requests.items[ResourceMemory])]
              ELSE t1
        t3 == IF ~c.Limits.isNil /\ Has(c.Limits, ResourceCPU)
              THEN [t2 EXCEPT !.totalCPULimit =
                        QuantityAdd(@, c.Limits.items[ResourceCPU])]
              ELSE t2
    IN  IF ~c.Limits.isNil /\ Has(c.Limits, ResourceMemory)
        THEN [t3 EXCEPT !.totalMemoryLimit =
                  QuantityAdd(@, c.Limits.items[ResourceMemory])]
        ELSE t3

\* PodMaxInitContainer without the comparison: the last init container wins
PodMaxInitContainer_LastWins(t, c) ==
    LET t1 == IF ~c.Requests.isNil /\ Has(c.Requests, ResourceCPU)
              THEN [t EXCEPT !.totalCPURequest = c.Requests.items[ResourceCPU]]
              ELSE t
    IN  IF ~c.Requests.isNil /\ Has(c.Requests, ResourceMemory)
        THEN [t1 EXCEPT !.totalMemoryRequest = c.Requests.items[ResourceMemory]]
        ELSE t1

\* body of "for _, container := range pod.Spec.InitContainers" on the totals t
PodMaxInitContainer(t, c) ==
    LET t1 == IF /\ ~c.Requests.isNil
                 /\ Has(c.Requests, ResourceCPU)
                 /\ QuantityCmp(c.Requests.items[ResourceCPU], t.totalCPURequest) > 0
              THEN [t EXCEPT !.totalCPURequest = c.Requests.items[ResourceCPU]]
              ELSE t
    IN  IF /\ ~c.Requests.isNil
           /\ Has(c.Requests, ResourceMemory)
           /\ QuantityCmp(c.Requests.items[ResourceMemory], t1.totalMemoryRequest) > 0
        THEN [t1 EXCEPT !.totalMemoryRequest = c.Requests.items[ResourceMemory]]
        ELSE t1

RECURSIVE PodContainersLoop(_, _, _)
PodContainersLoop(t, cs, i) ==
    IF i > Len(cs) THEN t
    ELSE PodContainersLoop(PodAddContainer(t, cs[i]), cs, i + 1)

RECURSIVE PodInitContainersLoop(_, _, _)
PodInitContainersLoop(t, cs, i) ==
    IF i > Len(cs) THEN t
    ELSE PodInitContainersLoop(PodMaxInitContainer(t, cs[i]), cs, i + 1)

\* the PodResources record appended for one pod
PodResourcesOf(pod) ==
    LET t == PodInitContainersLoop(
                 PodContainersLoop(NewTotals, pod.Containers, 1),
                 pod.InitContainers, 1)
    IN  [Name             |-> pod.Name,
         Namespace        |-> pod.Namespace,
         CPURequest       |-> FormatResourceQuantity(t.totalCPURequest, TRUE),
         CPULimit         |-> FormatResourceQuantity(t.totalCPULimit, TRUE),
         MemoryRequest    |-> t.totalMemoryRequest,
         MemoryLimit      |-> t.totalMemoryLimit,
         MemoryRequestStr |-> FormatResourceQuantity(t.totalMemoryRequest, FALSE),
         MemoryLimitStr   |-> FormatResourceQuantity(t.totalMemoryLimit, FALSE)]

\* FilterByName that consults the first name of the list only
FilterByName_FirstNameOnly(items, names, i) ==
    LET First(x) == x.Name = names[1]
    IN  SelectSeq(items, First)

\* "Filter by pod names if specified": the items whose name is in podNames
RECURSIVE FilterByName(_, _, _)
FilterByName(items, names, i) ==
    IF i > Len(items) THEN <<>>
    ELSE IF \E j \in 1..Len(names) : names[j] = items[i].Name
         THEN <<items[i]>> \o FilterByName(items, names, i + 1)
         ELSE FilterByName(items, names, i + 1)

\* the slice the function returns for a listing that succeeded
GetPodResources(pods, podNames) ==
    LET items == IF Len(podNames) > 0 THEN FilterByName(pods, podNames, 1)
                 ELSE pods
    IN  [i \in 1..Len(items) |-> PodResourcesOf(items[i])]

(***************************************************************************)
(* Inputs: the pod listings the API server may return.                     *)
(***************************************************************************)
SeqsUpTo(S, n) == UNION {[1..k -> S] : k \in 0..n}

\* regular containers: requests and limits for both resources; a CPU request
\* in whole cores and nothing else declared
ContainerSet ==
    { Container(List([cpu |-> Q(100, -3), memory |-> Q(128, 0)]),
                List([cpu |-> Q(200, -3), memory |-> Q(256, 0)])),
      Container(List([cpu |-> Q(1, 0)]), NilList) }

\* init containers: requests only; requests and limits
InitContainerSet ==
    { Container(List([cpu |-> Q(500, -3), memory |-> Q(192, 0)]), NilList),
      Container(List([cpu |-> Q(150, -3), memory |-> Q(512, 0)]),
                List([cpu |-> Q(2, 0), memory |-> Q(1024, 0)])) }

\* pod specs: every combination on node1, the short ones on node2, and
\* pods that are not scheduled
PodSpecSet ==
    { Pod("", "node1", cs, ics) :
        cs \in SeqsUpTo(ContainerSet, MaxContainers),
        ics \in SeqsUpTo(InitContainerSet, MaxInitContainers) }
    \cup
    { Pod("", "node2", cs, ics) :
        cs \in SeqsUpTo(ContainerSet, 1),
        ics \in { s \in SeqsUpTo(InitContainerSet, 1) :
                    \A i \in 1..Len(s) : s[i].Limits.isNil } }
    \cup
    { Pod("", "", cs, ics) :
        cs \in { s \in SeqsUpTo(ContainerSet, 1) :
                    Len(s) = 1 /\ ~s[1].Limits.isNil },
        ics \in { s \in SeqsUpTo(InitContainerSet, 1) :
                    \A i \in 1..Len(s) : s[i].Limits.isNil } }

\* the i-th pod of a listing is named "pod<i>": names within a listing differ
PodName(i) == "pod" \o ToString(i)

PodLists ==
    { [i \in 1..Len(l) |-> [l[i] EXCEPT !.Name = PodName(i)]] :
        l \in SeqsUpTo(PodSpecSet, MaxPods) }

\* the podNames argument of GetPodResources
PodNameArgs == { <<>>, <<"pod1">>, <<"pod2", "pod0">> }

ErrFetchPods == "failed to fetch pods"

(***************************************************************************)
(* Spec: one call of AggregatePodResourcesByNode or of GetPodResources on  *)
(* a listing.                                                              *)
(***************************************************************************)
\* no formatter call, no combiner call
IdleFormat ==
    /\ call = [fn |-> "none"]
    /\ result = ""

\* no RunPod or RunNode call
IdleRun ==
    /\ loopI = 0
    /\ goroutine = <<>>
    /\ chans = <<>>
    /\ received = {}
    /\ output = <<>>

IdleCombine ==
    /\ metrics = <<>>
    /\ nodes = <<>>
    /\ combined = <<>>
    /\ metricsList = <<>>
    /\ nodeList = <<>>

IdlePercent ==
    /\ node = [Capacity |-> NilList, Allocatable |-> NilList]
    /\ cpuUsageMilli = 0
    /\ memoryUsageBytes = 0
    /\ showCapacity = FALSE
    /\ cpuPercent = ""
    /\ memoryPercent = ""

Init ==
    /\ IdleRun
    /\ pc = "start"
    /\ podList \in PodLists
    /\ nodeResources = <<>>
    /\ resources = <<>>
    /\ err = ""
    /\ IdlePercent
    /\ IdleFormat
    /\ IdleCombine

\* Pods("").List succeeded: the aggregation loop runs over the listing
AggregateOk ==
    /\ pc = "start"
    /\ nodeResources' = AggregatePodResourcesByNode(podList)
    /\ pc' = "aggregated"
    /\ UNCHANGED <<runVars, podList, resources, err, pctVars, fmtVars, cmbVars>>

\* Pods("").List failed: return nil, err
AggregateErr ==
    /\ pc = "start"
    /\ err' = ErrFetchPods
    /\ pc' = "aggregateFailed"
    /\ UNCHANGED <<runVars, podList, nodeResources, resources, pctVars, fmtVars, cmbVars>>

\* Pods(namespace).List succeeded: filter by name, total each pod
GetPodResourcesOk ==
    /\ pc = "start"
    /\ \E podNames \in PodNameArgs :
          resources' = GetPodResources(podList, podNames)
    /\ pc' = "resources"
    /\ UNCHANGED <<runVars, podList, nodeResources, err, pctVars, fmtVars, cmbVars>>

\* Pods(namespace).List failed: return nil, err
GetPodResourcesErr ==
    /\ pc = "start"
    /\ err' = ErrFetchPods
    /\ pc' = "resourcesFailed"
    /\ UNCHANGED <<runVars, podList, nodeResources, resources, pctVars, fmtVars, cmbVars>>

Next == AggregateOk \/ AggregateErr \/ GetPodResourcesOk \/ GetPodResourcesErr

Spec == Init /\ [][Next]_vars

(***************************************************************************)
(* Reference quantities for the properties, computed from the listing and  *)
(* not by the loops above.  Amounts are exact, in thousandths.             *)
(***************************************************************************)
Num(q) == q.value * Pow10(q.scale + 3)

RECURSIVE Sum(_)
Sum(s) == IF s = <<>> THEN 0 ELSE Head(s) + Sum(Tail(s))

RECURSIVE Largest(_)
Largest(s) ==
    IF s = <<>> THEN 0
    ELSE LET m == Largest(Tail(s)) IN IF Head(s) > m THEN Head(s) ELSE m

Resources == {ResourceCPU, ResourceMemory}

\* sum of the regular containers' requests (limits) of a pod for a resource
RegularRequests(pod, res) ==
    Sum([i \in 1..Len(pod.Containers) |->
            Num(Get(pod.Containers[i].Requests, res))])
RegularLimits(pod, res) ==
    Sum([i \in 1..Len(pod.Containers) |->
            Num(Get(pod.Containers[i].Limits, res))])
\* largest init-container request of a pod for a resource
LargestInitRequest(pod, res) ==
    Largest([i \in 1..Len(pod.InitContainers) |->
                Num(Get(pod.InitContainers[i].Requests, res))])
\* max(sum of regular requests, largest init request)
EffectiveRequest(pod, res) ==
    IF RegularRequests(pod, res) > LargestInitRequest(pod, res)
    THEN RegularRequests(pod, res) ELSE LargestInitRequest(pod, res)

\* the pods of a listing scheduled on node n, in listing order
RECURSIVE PodsOn(_, _)
PodsOn(pods, n) ==
    IF pods = <<>> THEN <<>>
    ELSE IF Head(pods).NodeName = n THEN <<Head(pods)>> \o PodsOn(Tail(pods), n)
    ELSE PodsOn(Tail(pods), n)

RequestOf(r, res) == IF res = ResourceCPU THEN r.CPURequest ELSE r.MemoryRequest
LimitOf(r, res) == IF res = ResourceCPU THEN r.CPULimit ELSE r.MemoryLimit

\* two aggregate maps hold the same nodes with equal quantities (Quantity.Cmp)
SameTotals(a, b) ==
    /\ DOMAIN a = DOMAIN b
    /\ \A n \in DOMAIN a : \A res \in Resources :
          /\ QuantityCmp(RequestOf(a[n], res), RequestOf(b[n], res)) = 0
          /\ QuantityCmp(LimitOf(a[n], res), LimitOf(b[n], res)) = 0

\* the listings that hold the same pods as l in another order
Reorderings(l) ==
    { [i \in 1..Len(l) |-> l[f[i]]] :
        f \in { g \in [1..Len(l) -> 1..Len(l)] :
                  \A i, j \in 1..Len(l) : g[i] = g[j] => i = j } }

\* C1: for every permutation of the listing, AggregatePodResourcesByNode
\* yields the same per-node CPU/memory request and limit totals.
C1_OrderIndependent ==
    pc = "aggregated" =>
        \A l \in Reorderings(podList) :
            SameTotals(AggregatePodResourcesByNode(l), nodeResources)

\* C2: every node's CPU (memory) request is the sum over the pods scheduled
\* on it of max(sum of regular requests, largest init request).
C2_SumOfEffectiveRequests ==
    pc = "aggregated" =>
        \A n \in DOMAIN nodeResources : \A res \in Resources :
            LET ps == PodsOn(podList, n)
            IN  Num(RequestOf(nodeResources[n], res)) =
                    Sum([i \in 1..Len(ps) |-> EffectiveRequest(ps[i], res)])

\* C3: on a node with exactly one scheduled pod the CPU and memory requests
\* are max(sum of that pod's regular requests, its largest init request).
C3_SinglePodMax ==
    pc = "aggregated" =>
        \A n \in DOMAIN nodeResources :
            Len(PodsOn(podList, n)) = 1 =>
                \A res \in Resources :
                    Num(RequestOf(nodeResources[n], res)) =
                        EffectiveRequest(PodsOn(podList, n)[1], res)

\* C3 witness: one pod on node1, regular CPU request 100m, init CPU request
\* 500m, aggregated to 500m.
C3_Witness ==
    /\ pc = "aggregated"
    /\ Len(PodsOn(podList, "node1")) = 1
    /\ RegularRequests(PodsOn(podList, "node1")[1], ResourceCPU) = 100
    /\ LargestInitRequest(PodsOn(podList, "node1")[1], ResourceCPU) = 500
    /\ Num(nodeResources["node1"].CPURequest) = 500

NoInitContainersOn(pods, n) ==
    \A i \in 1..Len(pods) :
        pods[i].NodeName = n => pods[i].InitContainers = <<>>

\* C4: when no pod on a node has init containers, each of the node's four
\* totals is the sum of that quantity over all regular containers of the
\* node's pods, an undeclared quantity counting as zero.
C4_SumRule ==
    pc = "aggregated" =>
        \A n \in DOMAIN nodeResources :
            NoInitContainersOn(podList, n) =>
                \A res \in Resources :
                    LET ps == PodsOn(podList, n)
                    IN  /\ Num(RequestOf(nodeResources[n], res)) =
                              Sum([i \in 1..Len(ps) |-> RegularRequests(ps[i], res)])
                        /\ Num(LimitOf(nodeResources[n], res)) =
                              Sum([i \in 1..Len(ps) |-> RegularLimits(ps[i], res)])

\* C4 witness: two pods without init containers on node1, one of them with a
\* container that declares no memory request and no limits; totals are summed.
C4_Witness ==
    /\ pc = "aggregated"
    /\ Len(PodsOn(podList, "node1")) = 2
    /\ NoInitContainersOn(podList, "node1")
    /\ \E i \in 1..Len(podList) : \E j \in 1..Len(podList[i].Containers) :
          /\ podList[i].NodeName = "node1"
          /\ podList[i].Containers[j].Limits.isNil
          /\ ~Has(podList[i].Containers[j].Requests, ResourceMemory)
    /\ Num(nodeResources["node1"].CPURequest) = 1100
    /\ Num(nodeResources["node1"].CPULimit) = 200
    /\ Num(nodeResources["node1"].MemoryRequest) = 128000

\* the listing without its unscheduled pods
RECURSIVE Scheduled(_)
Scheduled(pods) ==
    IF pods = <<>> THEN <<>>
    ELSE IF Head(pods).NodeName = "" THEN Scheduled(Tail(pods))
    ELSE <<Head(pods)>> \o Scheduled(Tail(pods))

\* C5: the keys of the returned map are exactly the non-empty node names of
\* the listed pods; a pod with an empty node name adds no entry and changes
\* no total.
C5_KeySet ==
    pc = "aggregated" =>
        /\ DOMAIN nodeResources =
              {podList[i].NodeName : i \in 1..Len(podList)} \ {""}
        /\ \A n \in DOMAIN nodeResources : nodeResources[n].NodeName = n
        /\ nodeResources = AggregatePodResourcesByNode(Scheduled(podList))

\* C5 witness: a listing with an unscheduled pod that declares resources and
\* a scheduled pod; the map has the scheduled pod's node only.
C5_Witness ==
    /\ pc = "aggregated"
    /\ \E i \in 1..Len(podList) :
          podList[i].NodeName = "" /\ RegularRequests(podList[i], ResourceCPU) > 0
    /\ DOMAIN nodeResources = {"node2"}

\* the listing with every pod's init containers removed
WithoutInit(pods) ==
    [i \in 1..Len(pods) |-> [pods[i] EXCEPT !.InitContainers = <<>>]]

PodNamed(pods, name) == CHOOSE p \in {pods[i] : i \in 1..Len(pods)} : p.Name = name

\* C6: CPU and memory limit totals of AggregatePodResourcesByNode and of
\* GetPodResources are the sums over regular containers only, the same as
\* for the listing with all init containers removed.
C6_InitNeverAffectsLimits ==
    /\ pc = "aggregated" =>
          \A n \in DOMAIN nodeResources : \A res \in Resources :
              LET ps == PodsOn(podList, n)
                  bare == AggregatePodResourcesByNode(WithoutInit(podList))
              IN  /\ Num(LimitOf(nodeResources[n], res)) =
                        Sum([i \in 1..Len(ps) |-> RegularLimits(ps[i], res)])
                  /\ QuantityCmp(LimitOf(nodeResources[n], res),
                                 LimitOf(bare[n], res)) = 0
    /\ pc = "resources" =>
          \A i \in 1..Len(resources) :
              LET pod == PodNamed(podList, resources[i].Name)
              IN  /\ Num(resources[i].MemoryLimit) =
                        RegularLimits(pod, ResourceMemory)
                  /\ resources[i].CPULimit =
                        IF RegularLimits(pod, ResourceCPU) = 0 THEN "-"
                        ELSE ToString(RegularLimits(pod, ResourceCPU)) \o "m"

\* C6 witness: an aggregated listing in which a pod on node1 has an init
\* container that declares limits, and regular containers with limits.
C6_Witness ==
    /\ pc = "aggregated"
    /\ \E i \in 1..Len(podList) :
          /\ podList[i].NodeName = "node1"
          /\ \E j \in 1..Len(podList[i].InitContainers) :
                ~podList[i].InitContainers[j].Limits.isNil
          /\ RegularLimits(podList[i], ResourceCPU) > 0

Reverse(s) == [i \in 1..Len(s) |-> s[Len(s) + 1 - i]]

\* C7: for every pod, GetPodResources reports CPU and memory requests equal
\* to max(sum of regular requests, largest init request), whatever the order
\* of the init containers.
C7_PodEffectiveRequest ==
    pc = "resources" =>
        \A i \in 1..Len(resources) :
            LET pod == PodNamed(podList, resources[i].Name)
                rev == [pod EXCEPT !.InitContainers = Reverse(@)]
            IN  /\ Num(resources[i].MemoryRequest) =
                      EffectiveRequest(pod, ResourceMemory)
                /\ resources[i].CPURequest =
                      IF EffectiveRequest(pod, ResourceCPU) = 0 THEN "-"
                      ELSE ToString(EffectiveRequest(pod, ResourceCPU)) \o "m"
                /\ PodResourcesOf(rev).CPURequest = resources[i].CPURequest
                /\ QuantityCmp(PodResourcesOf(rev).MemoryRequest,
                               resources[i].MemoryRequest) = 0

\* C7 witness: a pod with two different init containers whose largest CPU
\* request exceeds the regular sum while the regular sum wins for neither
\* resource in the same way: CPU from the first init container, memory from
\* the second.
C7_Witness ==
    /\ pc = "resources"
    /\ \E i \in 1..Len(resources) :
          LET pod == PodNamed(podList, resources[i].Name)
          IN  /\ Len(pod.InitContainers) = 2
              /\ pod.InitContainers[1] # pod.InitContainers[2]
              /\ Len(pod.Containers) = 1
              /\ resources[i].CPURequest = "500m"
              /\ Num(resources[i].MemoryRequest) = 512000

(***************************************************************************)
(* float64 arithmetic, as CalculateNodePercentages uses it.  A float is    *)
(* [mant, exp]: mant is the 53-bit significand, most significant bit       *)
(* first (the empty sequence for 0.0), and the value is                    *)
(*   SUM mant[i] * 2^(exp + 1 - i).                                        *)
(* Every operation rounds to nearest, ties to even, as IEEE 754 does.      *)
(***************************************************************************)
MantBits == 53

FloatZero == [mant |-> <<>>, exp |-> 0]

\* the powers of two below 2^31
Pow2Table ==
    << 1, 2, 4, 8, 16, 32, 64, 128, 256, 512, 1024, 2048, 4096, 8192, 16384,
       32768, 65536, 131072, 262144, 524288, 1048576, 2097152, 4194304,
       8388608, 16777216, 33554432, 67108864, 134217728, 268435456,
       536870912, 1073741824 >>
Pow2(n) == Pow2Table[n + 1]

\* number of binary digits of a natural number below 2^31 (0 for 0)
RECURSIVE BitLen(_)
BitLen(n) == IF n = 0 THEN 0 ELSE 1 + BitLen(n \div 2)

\* the n lowest binary digits of a natural number, most significant first
LowBits(v, n) == [i \in 1..n |-> (v \div Pow2(n - i)) % 2]

\* binary digits of a natural number, most significant first (<<>> for 0)
IntBits(n) == LowBits(n, BitLen(n))

RECURSIVE BitsToInt(_)
BitsToInt(b) ==
    IF b = <<>> THEN 0
    ELSE 2 * BitsToInt(SubSeq(b, 1, Len(b) - 1)) + b[Len(b)]

AnyOne(b) == \E i \in 1..Len(b) : b[i] = 1

\* b + 1 for a bit string b that holds a zero: the last zero becomes one,
\* the ones behind it become zero
Increment(b) ==
    LET z == CHOOSE i \in 1..Len(b) :
                 b[i] = 0 /\ \A j \in (i + 1)..Len(b) : b[j] = 1
    IN  [i \in 1..Len(b) |-> IF i < z THEN b[i] ELSE IF i = z THEN 1 ELSE 0]

\* round the bit string b (leading bit 1, weight 2^e), followed by a tail
\* that is non-zero iff sticky, to a float
RoundToFloat(b, e, sticky) ==
    LET padded == IF Len(b) >= MantBits THEN b
                  ELSE b \o [i \in 1..(MantBits - Len(b)) |-> 0]
        keep   == SubSeq(padded, 1, MantBits)
        guard  == IF Len(padded) > MantBits THEN padded[MantBits + 1] ELSE 0
        rest   == sticky \/ AnyOne(SubSeq(padded, MantBits + 2, Len(padded)))
        up     == guard = 1 /\ (rest \/ keep[MantBits] = 1)
    IN  IF ~up THEN [mant |-> keep, exp |-> e]
        ELSE IF \A i \in 1..MantBits : keep[i] = 1
             THEN [mant |-> [i \in 1..MantBits |-> IF i = 1 THEN 1 ELSE 0],
                   exp |-> e + 1]
             ELSE [mant |-> Increment(keep), exp |-> e]

\* the exponent of two in b > 0, and b without its factors of two
RECURSIVE TwoAdicity(_)
TwoAdicity(b) == IF b % 2 = 0 THEN 1 + TwoAdicity(b \div 2) ELSE 0
OddPart(b) == b \div Pow2(TwoAdicity(b))

\* long division of the fraction r/t (0 <= r < t), k binary digits at a
\* step: the digits of n steps, and the remainder left after them
RECURSIVE FracBits(_, _, _, _)
FracBits(r, t, k, n) ==
    IF n = 0 THEN <<>>
    ELSE LowBits((r * Pow2(k)) \div t, k)
             \o FracBits((r * Pow2(k)) % t, t, k, n - 1)

RECURSIVE FracRem(_, _, _, _)
FracRem(r, t, k, n) ==
    IF n = 0 THEN r ELSE FracRem((r * Pow2(k)) % t, t, k, n - 1)

\* the float for the digit string all, whose first lenInt digits are the
\* integer part, divided by 2^shift: the digits from the leading one on
Normalize(all, lenInt, shift, sticky) ==
    LET first == CHOOSE i \in 1..Len(all) :
                     all[i] = 1 /\ \A j \in 1..(i - 1) : all[j] = 0
    IN  RoundToFloat(SubSeq(all, first, Len(all)),
                     (lenInt - first) - shift, sticky)

\* float64(a) / float64(b) for integers 0 <= a, 0 < b that float64 holds
\* exactly: the correctly rounded quotient.  Dividing by the factors of two
\* of b only lowers the exponent; the quotient by the odd part of b is
\* developed far enough to hold the significand and a guard digit behind
\* its leading one.
FloatDivOdd(a, t, shift, lenT) ==
    LET k == 30 - lenT
        n == ((lenT + MantBits + 1) \div k) + 1
    IN  Normalize(IntBits(a \div t) \o FracBits(a % t, t, k, n),
                  BitLen(a \div t), shift, FracRem(a % t, t, k, n) # 0)

FloatDiv(a, b) ==
    IF a = 0 THEN FloatZero
    ELSE FloatDivOdd(a, OddPart(b), TwoAdicity(b), BitLen(OddPart(b)))

LimbBits == 18

\* the bit string of m * c for a significand m and a natural number
\* c < 2^12, without leading zeros: m is multiplied in three limbs of at
\* most LimbBits digits, the carry of a limb going into the next one
MulBits(m, c) ==
    LET lo == BitsToInt(SubSeq(m, Len(m) - LimbBits + 1, Len(m)))
        mi == BitsToInt(SubSeq(m, Len(m) - 2 * LimbBits + 1, Len(m) - LimbBits))
        hi == BitsToInt(SubSeq(m, 1, Len(m) - 2 * LimbBits))
        p0 == lo * c
        p1 == mi * c + p0 \div Pow2(LimbBits)
        p2 == hi * c + p1 \div Pow2(LimbBits)
    IN  IntBits(p2) \o LowBits(p1, LimbBits) \o LowBits(p0, LimbBits)

\* x * float64(c) for a natural number 1 <= c < 2^12
FloatMulSmall(x, c) ==
    IF x.mant = <<>> THEN FloatZero
    ELSE LET prod == MulBits(x.mant, c)
         IN  RoundToFloat(prod, x.exp + (Len(prod) - MantBits), FALSE)

\* RoundF0 that drops the fraction
RoundF0_Truncates(x) ==
    IF x.mant = <<>> \/ x.exp <= -1 THEN 0
    ELSE IF x.exp >= MantBits - 1
         THEN BitsToInt(x.mant) * Pow2(x.exp - (MantBits - 1))
    ELSE BitsToInt(SubSeq(x.mant, 1, x.exp + 1))

\* RoundF0 that rounds an exact half up
RoundF0_HalfUp(x) ==
    IF x.mant = <<>> \/ x.exp < -1 THEN 0
    ELSE IF x.exp = -1 THEN 1
    ELSE IF x.exp >= MantBits - 1
         THEN BitsToInt(x.mant) * Pow2(x.exp - (MantBits - 1))
    ELSE BitsToInt(SubSeq(x.mant, 1, x.exp + 1)) + x.mant[x.exp + 2]

\* fmt.Sprintf("%.0f", x) for x >= 0, as a number: the nearest integer to
\* the exact value of x, an exact half going to the even neighbour
RoundF0(x) ==
    IF x.mant = <<>> \/ x.exp < -1 THEN 0
    ELSE IF x.exp = -1
         THEN IF AnyOne(SubSeq(x.mant, 2, MantBits)) THEN 1 ELSE 0
    ELSE IF x.exp >= MantBits - 1
         THEN BitsToInt(x.mant) * Pow2(x.exp - (MantBits - 1))
    ELSE LET int    == BitsToInt(SubSeq(x.mant, 1, x.exp + 1))
             guard  == x.mant[x.exp + 2]
             sticky == AnyOne(SubSeq(x.mant, x.exp + 3, MantBits))
         IN  IF guard = 1 /\ (sticky \/ int % 2 = 1) THEN int + 1 ELSE int

\* fmt.Sprintf("%.0f%%", x)
SprintfPercent(x) == ToString(RoundF0(x)) \o "%"

(***************************************************************************)
(* CalculateNodePercentages                                                *)
(***************************************************************************)
\* PercentOf with a zero total rendered as "0%"
PercentOf_ZeroTotalIsZeroPercent(total, totalUnits, usage) ==
    IF totalUnits > 0
    THEN SprintfPercent(FloatMulSmall(FloatDiv(usage, totalUnits), 100))
    ELSE "0%"

\* the percentage text for one resource, given its reference total as a
\* Quantity, the total converted to the usage's unit, and the usage
PercentOf(total, totalUnits, usage) ==
    IF ~IsZero(total)
    THEN IF totalUnits > 0
         THEN SprintfPercent(FloatMulSmall(FloatDiv(usage, totalUnits), 100))
         ELSE "0%"
    ELSE "-"

\* CalculateNodePercentages that reads Allocatable whatever the flag says
CalculateNodePercentages_IgnoresShowCapacity(n, cpuUsage, memoryUsage, capacity) ==
    << PercentOf(Get(n.Allocatable, ResourceCPU),
                 MilliValue(Get(n.Allocatable, ResourceCPU)), cpuUsage),
       PercentOf(Get(n.Allocatable, ResourceMemory),
                 Value(Get(n.Allocatable, ResourceMemory)), memoryUsage) >>

\* <<cpuPercent, memoryPercent>>
CalculateNodePercentages(n, cpuUsage, memoryUsage, capacity) ==
    LET cpuTotal    == IF capacity THEN Get(n.Capacity, ResourceCPU)
                       ELSE Get(n.Allocatable, ResourceCPU)
        memoryTotal == IF capacity THEN Get(n.Capacity, ResourceMemory)
                       ELSE Get(n.Allocatable, ResourceMemory)
    IN  << PercentOf(cpuTotal, MilliValue(cpuTotal), cpuUsage),
           PercentOf(memoryTotal, Value(memoryTotal), memoryUsage) >>

(***************************************************************************)
(* Inputs of CalculateNodePercentages.                                     *)
(***************************************************************************)
Gi == 1073741824

\* CPU totals: every milli-core count up to the bound (0m is a total that is
\* present and zero) and "4", four whole cores
CPUTotals == {Q(t, -3) : t \in 0..MaxTotalMilli} \cup {Q(4, 0)}
\* memory totals in bytes: present and zero, 1Gi
MemoryTotals == {Q(0, 0), Q(Gi, 0)}

\* resource lists of a node: each resource absent or present, and the nil map
NodeLists ==
    { List(c @@ m) :
        c \in {<<>>} \cup {[cpu |-> q] : q \in CPUTotals},
        m \in {<<>>} \cup {[memory |-> q] : q \in MemoryTotals} }
    \cup {NilList}

\* the list the call does not select: 2 cores and 512Mi
OtherList == List([cpu |-> Q(2, 0), memory |-> Q(Gi \div 2, 0)])

Nodes ==
    { [Capacity |-> l, Allocatable |-> OtherList] : l \in NodeLists }
    \cup { [Capacity |-> OtherList, Allocatable |-> l] : l \in NodeLists }

CPUUsages == 0..MaxUsageMilli \cup {500, 2000}
\* memory usage in bytes: none, 128Mi
MemoryUsages == {0, Gi \div 8}

(***************************************************************************)
(* SpecPercent: one call of CalculateNodePercentages.                      *)
(***************************************************************************)
IdlePods ==
    /\ podList = <<>>
    /\ nodeResources = <<>>
    /\ resources = <<>>
    /\ err = ""

InitPercent ==
    /\ IdleRun
    /\ pc = "start"
    /\ node \in Nodes
    /\ cpuUsageMilli \in CPUUsages
    /\ memoryUsageBytes \in MemoryUsages
    /\ showCapacity \in BOOLEAN
    /\ cpuPercent = ""
    /\ memoryPercent = ""
    /\ IdlePods
    /\ IdleFormat
    /\ IdleCombine

CalculatePercentages ==
    /\ pc = "start"
    /\ LET p == CalculateNodePercentages(node, cpuUsageMilli,
                                         memoryUsageBytes, showCapacity)
       IN  cpuPercent' = p[1] /\ memoryPercent' = p[2]
    /\ pc' = "percent"
    /\ UNCHANGED <<runVars, node, cpuUsageMilli, memoryUsageBytes, showCapacity,
                   podVars, err, fmtVars, cmbVars>>

NextPercent == CalculatePercentages

SpecPercent == InitPercent /\ [][NextPercent]_vars

(***************************************************************************)
(* Reference values for the percentage properties, in exact integer        *)
(* arithmetic on the reduced fraction usage/total.                         *)
(***************************************************************************)
RECURSIVE Gcd(_, _)
Gcd(a, b) == IF b = 0 THEN a ELSE Gcd(b, a % b)

\* the list the call selects
Selected == IF showCapacity THEN node.Capacity ELSE node.Allocatable

\* the selected total of a resource in the unit of the usage argument
TotalUnits(res) ==
    IF res = ResourceCPU THEN Num(Get(Selected, res))
    ELSE Get(Selected, res).value * Pow10(Get(Selected, res).scale)
UsageOf(res) == IF res = ResourceCPU THEN cpuUsageMilli ELSE memoryUsageBytes
PercentText(res) == IF res = ResourceCPU THEN cpuPercent ELSE memoryPercent

\* usage/total in lowest terms, for a positive total
RatioNum(res) == UsageOf(res) \div Gcd(UsageOf(res), TotalUnits(res))
RatioDen(res) == TotalUnits(res) \div Gcd(UsageOf(res), TotalUnits(res))
\* whole part of the exact percentage, and whether it lies below, on or
\* above the half
Floor100(res) == (100 * RatioNum(res)) \div RatioDen(res)
Twice100Rem(res) == 2 * ((100 * RatioNum(res)) % RatioDen(res))
ExactHalf(res) == Twice100Rem(res) = RatioDen(res)

Text(n) == ToString(n) \o "%"

\* C8: an absent or zero selected total gives "-" (no division happens); a
\* present positive total gives an integer followed by "%", "0%" for zero
\* usage.
C8_DashOrPercent ==
    pc = "percent" =>
        \A res \in Resources :
            IF TotalUnits(res) = 0
            THEN PercentText(res) = "-"
            ELSE /\ PercentText(res) \in {Text(Floor100(res)), Text(Floor100(res) + 1)}
                 /\ UsageOf(res) = 0 => PercentText(res) = "0%"

\* C8 witness: the selected CPU total is present and zero, the memory total
\* is absent, usage is positive, and both results are "-".
C8_Witness ==
    /\ pc = "percent"
    /\ Has(Selected, ResourceCPU) /\ IsZero(Selected.items[ResourceCPU])
    /\ ~Has(Selected, ResourceMemory) /\ ~Selected.isNil
    /\ cpuUsageMilli > 0 /\ memoryUsageBytes > 0
    /\ cpuPercent = "-" /\ memoryPercent = "-"

\* C9 as stated: for a positive total the result is usage/total*100 rounded
\* to the nearest whole percent, an exact half going away from zero.
C9_HalfAwayFromZero ==
    pc = "percent" =>
        \A res \in Resources :
            TotalUnits(res) > 0 =>
                PercentText(res) =
                    IF Twice100Rem(res) >= RatioDen(res)
                    THEN Text(Floor100(res) + 1) ELSE Text(Floor100(res))

\* C9 amended: for a positive total the result is a whole percent nearest
\* to usage/total*100 (never the truncation of a value above the half); an
\* exact half may go to either neighbour.
C9_NearestPercent ==
    pc = "percent" =>
        \A res \in Resources :
            TotalUnits(res) > 0 =>
                PercentText(res) \in
                    IF ExactHalf(res)
                    THEN {Text(Floor100(res)), Text(Floor100(res) + 1)}
                    ELSE IF Twice100Rem(res) > RatioDen(res)
                    THEN {Text(Floor100(res) + 1)}
                    ELSE {Text(Floor100(res))}

\* C9 witness: 2m of 3m, 66.67%, renders as "67%".
C9_Witness ==
    /\ pc = "percent"
    /\ cpuUsageMilli = 2
    /\ Has(Selected, ResourceCPU) /\ Selected.items[ResourceCPU] = Q(3, -3)
    /\ cpuPercent = "67%"

EvenOf(k) == IF k % 2 = 0 THEN k ELSE k + 1

\* C10 as stated: an exact half percent is rendered as the even neighbour.
C10_HalfToEven ==
    pc = "percent" =>
        \A res \in Resources :
            (TotalUnits(res) > 0 /\ ExactHalf(res)) =>
                PercentText(res) = Text(EvenOf(Floor100(res)))

\* C10 amended: an exact half percent is rendered as the even neighbour
\* when usage/total in lowest terms has denominator 8 (the quotient is then
\* exact in float64), as 12.5% is: 500m of 4 cores and 128Mi of 1Gi give
\* "12%".
C10_HalfToEvenWhenExact ==
    pc = "percent" =>
        /\ \A res \in Resources :
              (TotalUnits(res) > 0 /\ ExactHalf(res) /\ RatioDen(res) = 8) =>
                  PercentText(res) = Text(EvenOf(Floor100(res)))
        /\ (cpuUsageMilli = 500 /\ Get(Selected, ResourceCPU) = Q(4, 0)) =>
              cpuPercent = "12%"
        /\ (memoryUsageBytes = Gi \div 8 /\ Get(Selected, ResourceMemory) = Q(Gi, 0)) =>
              memoryPercent = "12%"

\* C10 witness: 500m of 4 cores and 128Mi of 1Gi, both 12.5%, both "12%".
C10_Witness ==
    /\ pc = "percent"
    /\ cpuUsageMilli = 500 /\ Get(Selected, ResourceCPU) = Q(4, 0)
    /\ memoryUsageBytes = Gi \div 8 /\ Get(Selected, ResourceMemory) = Q(Gi, 0)
    /\ cpuPercent = "12%" /\ memoryPercent = "12%"

\* the resource list l with the entry for k set to q, or removed
SetEntry(l, k, q) ==
    List([x \in DOMAIN l.items \cup {k} |-> IF x = k THEN q ELSE l.items[x]])
DropEntry(l, k) ==
    IF l.isNil THEN l ELSE List([x \in DOMAIN l.items \ {k} |-> l.items[x]])

\* the node with its selected / its other list replaced by l
WithSelected(l) ==
    IF showCapacity THEN [node EXCEPT !.Capacity = l]
    ELSE [node EXCEPT !.Allocatable = l]
WithOther(l) ==
    IF showCapacity THEN [node EXCEPT !.Allocatable = l]
    ELSE [node EXCEPT !.Capacity = l]

\* other totals and usages for one resource: the entry absent, or present
\* with another total
OtherEntries(res) ==
    {DropEntry(Selected, res)} \cup
    { SetEntry(Selected, res, q) :
        q \in IF res = ResourceCPU THEN {Q(3, -3)} ELSE {Q(Gi \div 2, 0)} }
OtherUsages(res) == IF res = ResourceCPU THEN {0, 2} ELSE {0, Gi \div 4}

\* C11: the results are computed from the Capacity list when showCapacity is
\* true and from the Allocatable list otherwise (the other list has no
\* influence), and each resource's result depends only on that resource's
\* usage and total: changing the memory usage or total leaves the CPU result
\* as it is, and conversely.
C11_SelectedListIndependently ==
    pc = "percent" =>
        /\ \A l \in {NilList, List([cpu |-> Q(3, -3)]), List([memory |-> Q(Gi, 0)])} :
              CalculateNodePercentages(WithOther(l), cpuUsageMilli,
                                       memoryUsageBytes, showCapacity)
                  = <<cpuPercent, memoryPercent>>
        /\ \A res \in Resources : (PercentText(res) = "-") <=> (TotalUnits(res) = 0)
        /\ \A l \in OtherEntries(ResourceMemory), u \in OtherUsages(ResourceMemory) :
              CalculateNodePercentages(WithSelected(l), cpuUsageMilli, u,
                                       showCapacity)[1] = cpuPercent
        /\ \A l \in OtherEntries(ResourceCPU), u \in OtherUsages(ResourceCPU) :
              CalculateNodePercentages(WithSelected(l), u, memoryUsageBytes,
                                       showCapacity)[2] = memoryPercent

\* C11 witness: showCapacity is set, the Capacity list has a CPU total and
\* no memory total while the Allocatable list has both: the CPU result is a
\* percentage of the Capacity total and the memory result is "-".
C11_Witness ==
    /\ pc = "percent"
    /\ showCapacity
    /\ node.Capacity = List([cpu |-> Q(40, -3)])
    /\ node.Allocatable = OtherList
    /\ cpuUsageMilli = 20 /\ memoryUsageBytes > 0
    /\ cpuPercent = "50%" /\ memoryPercent = "-"

(***************************************************************************)
(* Formatting of float64 values and strings.                               *)
(***************************************************************************)
\* float64(n) for an integer 0 <= n < 2^31: exact
Float64(n) ==
    IF n = 0 THEN FloatZero
    ELSE RoundToFloat(IntBits(n), BitLen(n) - 1, FALSE)

\* int64(x) for a float 0 <= x < 2^31: the fraction is dropped
Int64(x) ==
    IF x.mant = <<>> \/ x.exp < 0 THEN 0
    ELSE BitsToInt(SubSeq(x.mant, 1, x.exp + 1))

\* x * 2^k, exact
FloatMulPow2(x, k) == IF x.mant = <<>> THEN x ELSE [x EXCEPT !.exp = @ + k]

\* the integer nearest to the number whose binary digits are b, the first
\* of weight 2^e; an exact half goes to the even neighbour
RoundBits(b, e) ==
    IF b = <<>> \/ e < -1 THEN 0
    ELSE IF e = -1 THEN IF AnyOne(SubSeq(b, 2, Len(b))) THEN 1 ELSE 0
    ELSE IF e >= Len(b) - 1 THEN BitsToInt(b) * Pow2(e - (Len(b) - 1))
    ELSE LET int    == BitsToInt(SubSeq(b, 1, e + 1))
             guard  == b[e + 2]
             sticky == AnyOne(SubSeq(b, e + 3, Len(b)))
         IN  IF guard = 1 /\ (sticky \/ int % 2 = 1) THEN int + 1 ELSE int

\* the decimal text of n hundredths
HundredthsText(n) ==
    ToString(n \div 100) \o "." \o ToString((n % 100) \div 10) \o ToString(n % 10)

\* the exact product m * 100 of a significand, rounded to an integer at the
\* exponent of x
RoundHundredths(prod, exp) == RoundBits(prod, exp + (Len(prod) - MantBits))

\* SprintfF2 that drops the digits behind the second decimal place
SprintfF2_Truncates(x) ==
    IF x.mant = <<>> THEN "0.00"
    ELSE HundredthsText(Int64(FloatMulSmall(x, 100)))

\* fmt.Sprintf("%.2f", x) for x >= 0: the exact value of x in decimal,
\* rounded to two places, an exact half going to the even digit
SprintfF2(x) ==
    IF x.mant = <<>> THEN "0.00"
    ELSE HundredthsText(RoundHundredths(MulBits(x.mant, 100), x.exp))

\* strings.HasSuffix and strings.TrimSuffix
HasSuffix(s, suffix) ==
    Len(s) >= Len(suffix) /\ SubSeq(s, Len(s) - Len(suffix) + 1, Len(s)) = suffix
TrimSuffix(s, suffix) ==
    IF HasSuffix(s, suffix) THEN SubSeq(s, 1, Len(s) - Len(suffix)) ELSE s

DigitChars == <<"0", "1", "2", "3", "4", "5", "6", "7", "8", "9">>
IsDigit(c) == \E i \in 1..10 : DigitChars[i] = c
DigitValue(c) == (CHOOSE i \in 1..10 : DigitChars[i] = c) - 1
AllDigits(s) == \A i \in 1..Len(s) : IsDigit(SubSeq(s, i, i))

\* the number a string of decimal digits spells (0 for the empty string)
RECURSIVE Atoi(_)
Atoi(s) ==
    IF s = "" THEN 0
    ELSE 10 * Atoi(SubSeq(s, 1, Len(s) - 1)) + DigitValue(SubSeq(s, Len(s), Len(s)))

\* position of the first "." of s, 0 when there is none
DotAt(s) ==
    IF \E i \in 1..Len(s) : SubSeq(s, i, i) = "."
    THEN CHOOSE i \in 1..Len(s) :
             SubSeq(s, i, i) = "." /\ \A j \in 1..(i - 1) : SubSeq(s, j, j) # "."
    ELSE 0

\* the float nearest to the decimal number digits.digits
DecimalToFloat(ip, fp) ==
    IF AllDigits(ip) /\ AllDigits(fp) /\ Len(ip) + Len(fp) > 0
    THEN FloatDiv(Atoi(ip \o fp), Pow10(Len(fp)))
    ELSE FloatZero

\* strconv.ParseFloat(s, 64) with its error dropped, and the %f verb of
\* fmt.Sscanf, on unsigned decimal numbers without exponent: the nearest
\* float; 0 for any other text
ParseFloat(s) ==
    IF DotAt(s) = 0 THEN DecimalToFloat(s, "")
    ELSE DecimalToFloat(SubSeq(s, 1, DotAt(s) - 1), SubSeq(s, DotAt(s) + 1, Len(s)))

\* number of decimal digits s starts with
RECURSIVE LeadingDigits(_)
LeadingDigits(s) ==
    IF s = "" \/ ~IsDigit(SubSeq(s, 1, 1)) THEN 0
    ELSE 1 + LeadingDigits(SubSeq(s, 2, Len(s)))

\* length of the float token the %f verb reads from the front of s: digits,
\* then a point and digits (text without sign or exponent)
FloatTokenLen(s) ==
    IF LeadingDigits(s) < Len(s)
          /\ SubSeq(s, LeadingDigits(s) + 1, LeadingDigits(s) + 1) = "."
    THEN LeadingDigits(s) + 1
             + LeadingDigits(SubSeq(s, LeadingDigits(s) + 2, Len(s)))
    ELSE LeadingDigits(s)

\* the value fmt.Sscanf(s, "%f...", &value) leaves in value, its error
\* dropped: the float token at the front of s, 0 when there is none
Sscanf(s) == ParseFloat(SubSeq(s, 1, FloatTokenLen(s)))

(***************************************************************************)
(* formatCPU, formatMemory, FormatMemoryInUnit, ExtractMemoryUnit          *)
(***************************************************************************)
KB == 1024
MB == KB * 1024
GB == MB * 1024

unknownValue == "<unknown>"

\* the two Sprintf branches of formatCPU on cores = float64(millicores)/1000.0
FormatCores(cores) ==
    IF cores = Float64(Int64(cores)) THEN ToString(RoundF0(cores))
    ELSE SprintfF2(cores)

\* formatCPU without the branch for values below 1000
formatCPU_AlwaysCores(millicores) ==
    IF millicores = 0 THEN "0"
    ELSE FormatCores(FloatDiv(millicores, 1000))

\* formatCPU that prints whole cores with two decimals as well
formatCPU_NoWholeCores(millicores) ==
    IF millicores = 0 THEN "0"
    ELSE IF millicores < 1000 THEN ToString(millicores) \o "m"
    ELSE SprintfF2(FloatDiv(millicores, 1000))

formatCPU(millicores) ==
    IF millicores = 0 THEN "0"
    ELSE IF millicores < 1000 THEN ToString(millicores) \o "m"
    ELSE FormatCores(FloatDiv(millicores, 1000))

\* formatMemory with ">" for ">=" in the switch
formatMemory_StrictThresholds(bytes) ==
    IF bytes = 0 THEN "0"
    ELSE IF bytes > GB THEN SprintfF2(FloatDiv(bytes, GB)) \o "Gi"
    ELSE IF bytes > MB THEN SprintfF2(FloatDiv(bytes, MB)) \o "Mi"
    ELSE IF bytes > KB THEN SprintfF2(FloatDiv(bytes, KB)) \o "Ki"
    ELSE ToString(bytes) \o "B"

formatMemory(bytes) ==
    IF bytes = 0 THEN "0"
    ELSE IF bytes >= GB THEN SprintfF2(FloatDiv(bytes, GB)) \o "Gi"
    ELSE IF bytes >= MB THEN SprintfF2(FloatDiv(bytes, MB)) \o "Mi"
    ELSE IF bytes >= KB THEN SprintfF2(FloatDiv(bytes, KB)) \o "Ki"
    ELSE ToString(bytes) \o "B"

\* FormatMemoryInUnit without the test for a zero quantity
FormatMemoryInUnit_NoSentinel(q, targetUnit) ==
    IF targetUnit = "Gi" THEN SprintfF2(FloatDiv(Value(q), GB)) \o "Gi"
    ELSE IF targetUnit = "Ki" THEN SprintfF2(FloatDiv(Value(q), KB)) \o "Ki"
    ELSE SprintfF2(FloatDiv(Value(q), MB)) \o "Mi"

FormatMemoryInUnit(q, targetUnit) ==
    IF IsZero(q) THEN "-"
    ELSE IF targetUnit = "Gi" THEN SprintfF2(FloatDiv(Value(q), GB)) \o "Gi"
    ELSE IF targetUnit = "Mi" THEN SprintfF2(FloatDiv(Value(q), MB)) \o "Mi"
    ELSE IF targetUnit = "Ki" THEN SprintfF2(FloatDiv(Value(q), KB)) \o "Ki"
    ELSE SprintfF2(FloatDiv(Value(q), MB)) \o "Mi"

\* ExtractMemoryUnit that has no default: the text behind the number
ExtractMemoryUnit_NoDefault(memoryStr) ==
    SubSeq(memoryStr, FloatTokenLen(memoryStr) + 1, Len(memoryStr))

\* ExtractMemoryUnit that reports "Mi" for every string
ExtractMemoryUnit_AlwaysMi(memoryStr) == "Mi"

ExtractMemoryUnit(memoryStr) ==
    IF memoryStr = "" \/ memoryStr = "-" \/ memoryStr = "<unknown>" THEN "Mi"
    ELSE IF HasSuffix(memoryStr, "Gi") THEN "Gi"
    ELSE IF HasSuffix(memoryStr, "Mi") THEN "Mi"
    ELSE IF HasSuffix(memoryStr, "Ki") THEN "Ki"
    ELSE IF HasSuffix(memoryStr, "G") THEN "Gi"
    ELSE IF HasSuffix(memoryStr, "M") THEN "Mi"
    ELSE IF HasSuffix(memoryStr, "K") THEN "Ki"
    ELSE "Mi"

(***************************************************************************)
(* SpecFormat: one call of a formatter.                                    *)
(***************************************************************************)
\* the byte counts within MaxSpan of u
Near(u) == {u + d : d \in (0 - MaxSpan)..MaxSpan}

\* byte counts handed to formatMemory: zero, the first bytes, and the
\* values around each unit boundary and between two boundaries
MemoryBytes ==
    {0} \cup (1..MaxSpan) \cup Near(512) \cup Near(KB) \cup Near(KB + KB \div 2)
        \cup Near(MB) \cup Near(200 * MB) \cup Near(GB) \cup Near(GB + GB \div 2)

\* CPU quantities handed to FormatResourceQuantity: the zero value, zero
\* at another scale, "100m", "1", "1500m", half a milli-core
CPUQuantities ==
    { ZeroQuantity, Q(0, -3), Q(100, -3), Q(1, 0), Q(1500, -3), Q(5, -4) }

\* memory quantities handed to FormatResourceQuantity and
\* FormatMemoryInUnit: the zero value, zero at another scale, "128",
\* "128k", "64M", "1G"
MemoryQuantities ==
    { ZeroQuantity, Q(0, 6), Q(128, 0), Q(128, 3), Q(64, 6), Q(1, 9) }

TargetUnits == {"Gi", "Mi", "Ki", "B", "", "Ti"}

\* strings handed to ExtractMemoryUnit: what formatMemory prints, the
\* sentinels, and decimal-suffixed or unit-less text
MemoryStrings ==
    { formatMemory(b) : b \in {0, 512, KB, 3 * MB, GB} }
        \cup {"", "-", unknownValue, "128M", "1G", "64K", "100", "12Ti"}

Calls ==
    { [fn |-> "formatCPU", millicores |-> v] : v \in 0..MaxMillicores }
    \cup { [fn |-> "formatMemory", bytes |-> b] : b \in MemoryBytes }
    \cup { [fn |-> "FormatResourceQuantity", q |-> q, isCPU |-> TRUE] :
             q \in CPUQuantities }
    \cup { [fn |-> "FormatResourceQuantity", q |-> q, isCPU |-> FALSE] :
             q \in MemoryQuantities }
    \cup { [fn |-> "FormatMemoryInUnit", q |-> q, targetUnit |-> u] :
             q \in MemoryQuantities, u \in TargetUnits }
    \cup { [fn |-> "ExtractMemoryUnit", memoryStr |-> m] : m \in MemoryStrings }

InitFormat ==
    /\ IdleRun
    /\ pc = "start"
    /\ call \in Calls
    /\ result = ""
    /\ IdlePods
    /\ IdlePercent
    /\ IdleCombine

Returned(text) ==
    /\ result' = text
    /\ pc' = "formatted"
    /\ UNCHANGED <<runVars, call, podVars, err, pctVars, cmbVars>>

CallFormatCPU ==
    pc = "start" /\ call.fn = "formatCPU" /\ Returned(formatCPU(call.millicores))

CallFormatMemory ==
    pc = "start" /\ call.fn = "formatMemory" /\ Returned(formatMemory(call.bytes))

CallFormatResourceQuantity ==
    /\ pc = "start" /\ call.fn = "FormatResourceQuantity"
    /\ Returned(FormatResourceQuantity(call.q, call.isCPU))

CallFormatMemoryInUnit ==
    /\ pc = "start" /\ call.fn = "FormatMemoryInUnit"
    /\ Returned(FormatMemoryInUnit(call.q, call.targetUnit))

CallExtractMemoryUnit ==
    /\ pc = "start" /\ call.fn = "ExtractMemoryUnit"
    /\ Returned(ExtractMemoryUnit(call.memoryStr))

NextFormat ==
    \/ CallFormatCPU
    \/ CallFormatMemory
    \/ CallFormatResourceQuantity
    \/ CallFormatMemoryInUnit
    \/ CallExtractMemoryUnit

SpecFormat == InitFormat /\ [][NextFormat]_vars

(***************************************************************************)
(* GetPodMetrics, GetNodeMetrics, GetNodeResources                         *)
(***************************************************************************)
\* totalCPU and totalMemory over the containers of one PodMetrics item
RECURSIVE TotalCPU(_)
TotalCPU(cs) ==
    IF cs = <<>> THEN 0
    ELSE MilliValue(Get(Head(cs), ResourceCPU)) + TotalCPU(Tail(cs))
RECURSIVE TotalMemory(_)
TotalMemory(cs) ==
    IF cs = <<>> THEN 0
    ELSE Value(Get(Head(cs), ResourceMemory)) + TotalMemory(Tail(cs))

\* the PodMetrics record appended for one item of the metrics listing
PodMetricsOf(pm) ==
    [Name      |-> pm.Name,
     Namespace |-> pm.Namespace,
     CPU       |-> formatCPU(TotalCPU(pm.Containers)),
     Memory    |-> formatMemory(TotalMemory(pm.Containers))]

GetPodMetrics(items, podNames) ==
    LET kept == IF Len(podNames) > 0 THEN FilterByName(items, podNames, 1)
                ELSE items
    IN  [i \in 1..Len(kept) |-> PodMetricsOf(kept[i])]

\* the NodeMetrics record appended for one item; the percentages are left
\* at the zero value
NodeMetricsOf(nm) ==
    [Name          |-> nm.Name,
     CPU           |-> formatCPU(MilliValue(Get(nm.Usage, ResourceCPU))),
     CPUPercent    |-> "",
     Memory        |-> formatMemory(Value(Get(nm.Usage, ResourceMemory))),
     MemoryPercent |-> ""]

GetNodeMetrics(items, nodeNames) ==
    LET kept == IF Len(nodeNames) > 0 THEN FilterByName(items, nodeNames, 1)
                ELSE items
    IN  [i \in 1..Len(kept) |-> NodeMetricsOf(kept[i])]

\* nodesMap: node name -> the node of the listing (the last one of a name)
GetNodeResources(items, nodeNames) ==
    LET kept == IF Len(nodeNames) > 0 THEN FilterByName(items, nodeNames, 1)
                ELSE items
    IN  [n \in {kept[i].Name : i \in 1..Len(kept)} |->
            kept[CHOOSE i \in 1..Len(kept) :
                    kept[i].Name = n /\ \A j \in (i + 1)..Len(kept) : kept[j].Name # n]]

(***************************************************************************)
(* parseCPUValueForNode, parseMemoryValueForNode                           *)
(***************************************************************************)
\* the float64 the function returns
parseCPUValueForNode(cpuStr) ==
    IF cpuStr = "" \/ cpuStr = "-" \/ cpuStr = unknownValue THEN FloatZero
    ELSE ParseFloat(TrimSuffix(cpuStr, "m"))

\* the int64 the function returns: Sscanf reads the number in front of the
\* suffix, the product with the unit is converted to int64
parseMemoryValueForNode(memStr) ==
    IF memStr = "" \/ memStr = "-" \/ memStr = unknownValue THEN 0
    ELSE IF HasSuffix(memStr, "Gi")
         THEN Int64(FloatMulPow2(Sscanf(memStr), 30))
    ELSE IF HasSuffix(memStr, "Mi")
         THEN Int64(FloatMulPow2(Sscanf(memStr), 20))
    ELSE IF HasSuffix(memStr, "Ki")
         THEN Int64(FloatMulPow2(Sscanf(memStr), 10))
    ELSE 0

(***************************************************************************)
(* combineMetricsAndResources (pod command)                                *)
(***************************************************************************)
\* a key made of the name alone
PodKey_NameOnly(x) == x.Name

\* fmt.Sprintf("%s/%s", namespace, name)
PodKey(x) == x.Namespace \o "/" \o x.Name

\* the map built by "for _, x := range xs { m[key] = x }": a later element
\* replaces an earlier one of the same key
MapByKey(xs) ==
    [k \in {PodKey(xs[i]) : i \in 1..Len(xs)} |->
        xs[CHOOSE i \in 1..Len(xs) :
              PodKey(xs[i]) = k /\ \A j \in (i + 1)..Len(xs) : PodKey(xs[j]) # k]]

\* the orders in which a range over a map with the key set S may run
Orders(S) ==
    { f \in [1..Cardinality(S) -> S] :
        \A i, j \in 1..Cardinality(S) : f[i] = f[j] => i = j }

\* the memory request or limit of a row, in the given unit
MemoryText(q, unit) == IF ~IsZero(q) THEN FormatMemoryInUnit(q, unit) ELSE "-"

\* the row of a pod with metrics when its key is looked up in a map that
\* holds no resources
PodRowWithMetrics_NeverFindsResources(m, resourcesMap, key) ==
    [Name |-> m.Name, CPUUsage |-> m.CPU, CPURequest |-> "-", CPULimit |-> "-",
     MemoryUsage |-> m.Memory, MemoryRequest |-> "-", MemoryLimit |-> "-"]

\* the row appended in the first loop, for the metrics m found under key
PodRowWithMetrics(m, resourcesMap, key) ==
    IF key \in DOMAIN resourcesMap
    THEN [Name          |-> m.Name,
          CPUUsage      |-> m.CPU,
          CPURequest    |-> resourcesMap[key].CPURequest,
          CPULimit      |-> resourcesMap[key].CPULimit,
          MemoryUsage   |-> m.Memory,
          MemoryRequest |-> MemoryText(resourcesMap[key].MemoryRequest,
                                       ExtractMemoryUnit(m.Memory)),
          MemoryLimit   |-> MemoryText(resourcesMap[key].MemoryLimit,
                                       ExtractMemoryUnit(m.Memory))]
    ELSE [Name |-> m.Name, CPUUsage |-> m.CPU, CPURequest |-> "-",
          CPULimit |-> "-", MemoryUsage |-> m.Memory, MemoryRequest |-> "-",
          MemoryLimit |-> "-"]

\* the row appended in the second loop, for resources r without metrics
PodRowWithoutMetrics(r) ==
    [Name          |-> r.Name,
     CPUUsage      |-> "<unknown>",
     CPURequest    |-> r.CPURequest,
     CPULimit      |-> r.CPULimit,
     MemoryUsage   |-> "<unknown>",
     MemoryRequest |-> MemoryText(r.MemoryRequest, "Mi"),
     MemoryLimit   |-> MemoryText(r.MemoryLimit, "Mi")]

\* "for key, m := range metricsMap": the rows, in the order the range runs
RECURSIVE MetricsLoop(_, _, _, _, _)
MetricsLoop(metricsMap, resourcesMap, order, i, seen) ==
    IF i > Len(order) THEN <<>>
    ELSE IF order[i] \in seen
         THEN MetricsLoop(metricsMap, resourcesMap, order, i + 1, seen)
    ELSE <<PodRowWithMetrics(metricsMap[order[i]], resourcesMap, order[i])>>
             \o MetricsLoop(metricsMap, resourcesMap, order, i + 1,
                            seen \cup {order[i]})

\* ResourcesLoop that does not consult seen
RECURSIVE ResourcesLoop_IgnoresSeen(_, _, _, _)
ResourcesLoop_IgnoresSeen(resourcesMap, order, i, seen) ==
    IF i > Len(order) THEN <<>>
    ELSE <<PodRowWithoutMetrics(resourcesMap[order[i]])>>
             \o ResourcesLoop_IgnoresSeen(resourcesMap, order, i + 1, seen)

\* ResourcesLoop that appends nothing
ResourcesLoop_Skipped(resourcesMap, order, i, seen) == <<>>

\* "for key, r := range resourcesMap": the rows of the keys not seen
RECURSIVE ResourcesLoop(_, _, _, _)
ResourcesLoop(resourcesMap, order, i, seen) ==
    IF i > Len(order) THEN <<>>
    ELSE IF order[i] \in seen
         THEN ResourcesLoop(resourcesMap, order, i + 1, seen)
    ELSE <<PodRowWithoutMetrics(resourcesMap[order[i]])>>
             \o ResourcesLoop(resourcesMap, order, i + 1, seen \cup {order[i]})

\* the slice returned when the two ranges run in the orders given
combineMetricsAndResources(ms, rs, metricsOrder, resourcesOrder) ==
    MetricsLoop(MapByKey(ms), MapByKey(rs), metricsOrder, 1, {})
        \o ResourcesLoop(MapByKey(rs), resourcesOrder, 1, DOMAIN MapByKey(ms))

(***************************************************************************)
(* combineNodeMetricsAndResources (node command)                           *)
(***************************************************************************)
\* NodePercentages that reports no node record as zero percent
NodePercentages_ZeroWithoutNode(m, ns, capacity) ==
    IF m.Name \in DOMAIN ns
    THEN CalculateNodePercentages(ns[m.Name],
                                  Int64(parseCPUValueForNode(m.CPU)),
                                  parseMemoryValueForNode(m.Memory), capacity)
    ELSE <<"0%", "0%">>

\* <<cpuPercent, memoryPercent>> of a row: "-" without a node record,
\* otherwise computed from the usage parsed back out of the metric's strings
NodePercentages(m, ns, capacity) ==
    IF m.Name \in DOMAIN ns
    THEN CalculateNodePercentages(ns[m.Name],
                                  Int64(parseCPUValueForNode(m.CPU)),
                                  parseMemoryValueForNode(m.Memory), capacity)
    ELSE <<"-", "-">>

\* the CPU request or limit of a node row
CPUText(q) == IF ~IsZero(q) THEN FormatResourceQuantity(q, TRUE) ELSE "-"

\* the row of the metrics m with the percentages pct
NodeRowOf(m, rs, pct) ==
    IF m.Name \in DOMAIN rs
    THEN [Name          |-> m.Name,
          CPUUsage      |-> m.CPU,
          CPUPercent    |-> pct[1],
          CPURequest    |-> CPUText(rs[m.Name].CPURequest),
          CPULimit      |-> CPUText(rs[m.Name].CPULimit),
          MemoryUsage   |-> m.Memory,
          MemoryPercent |-> pct[2],
          MemoryRequest |-> MemoryText(rs[m.Name].MemoryRequest,
                                       ExtractMemoryUnit(m.Memory)),
          MemoryLimit   |-> MemoryText(rs[m.Name].MemoryLimit,
                                       ExtractMemoryUnit(m.Memory))]
    ELSE [Name          |-> m.Name,
          CPUUsage      |-> m.CPU,
          CPUPercent    |-> pct[1],
          CPURequest    |-> "-",
          CPULimit      |-> "-",
          MemoryUsage   |-> m.Memory,
          MemoryPercent |-> pct[2],
          MemoryRequest |-> "-",
          MemoryLimit   |-> "-"]

\* the row appended for the metrics m
NodeRow(m, rs, ns, capacity) == NodeRowOf(m, rs, NodePercentages(m, ns, capacity))

\* one row per element of metrics, in the order of metrics
combineNodeMetricsAndResources(ms, rs, ns, capacity) ==
    [i \in 1..Len(ms) |-> NodeRow(ms[i], rs, ns, capacity)]

(***************************************************************************)
(* Inputs of the combiners: what the fetchers return for the listings of   *)
(* a cluster.  Names within a listing differ, as the API server's do.      *)
(***************************************************************************)
\* <<namespace, name>> of the pods of the cluster, in the order in which
\* a listing returns them
PodKeys == << <<"default", "db">>, <<"default", "web">>, <<"prod", "web">> >>

\* the elements of s at the indexes I, in the order of s
Pick(s, I) ==
    [k \in 1..Cardinality(I) |->
        s[CHOOSE i \in I : Cardinality({j \in I : j < i}) = k - 1]]

\* the listings of at most n of the elements of s
Listings(s, n) ==
    { Pick(s, I) : I \in { J \in SUBSET (1..Len(s)) : Cardinality(J) <= n } }

\* container usages of a pod: 250m and 512 bytes; two containers of 750m and
\* 750M each; no usage; 1m and 64k
PodUsageSet ==
    { << List([cpu |-> Q(250, -3), memory |-> Q(512, 0)]) >>,
      << List([cpu |-> Q(750, -3), memory |-> Q(750, 6)]),
         List([cpu |-> Q(750, -3), memory |-> Q(750, 6)]) >>,
      << List([cpu |-> ZeroQuantity, memory |-> ZeroQuantity]) >>,
      << List([cpu |-> Q(1, -3), memory |-> Q(64, 3)]) >> }

PodMetricsLists ==
    UNION { { [i \in 1..Len(ks) |->
                 [Name |-> ks[i][2], Namespace |-> ks[i][1], Containers |-> us[i]]] :
              us \in [1..Len(ks) -> PodUsageSet] } :
            ks \in Listings(PodKeys, MaxMetrics) }

\* containers and init containers of a pod: nothing declared; requests and
\* limits for both resources; a CPU request, and an init container whose
\* requests are larger
CombinePodSpecs ==
    { << <<Container(NilList, NilList)>>, <<>> >>,
      << <<Container(List([cpu |-> Q(100, -3), memory |-> Q(64, 6)]),
                     List([cpu |-> Q(200, -3), memory |-> Q(128, 6)]))>>, <<>> >>,
      << <<Container(List([cpu |-> Q(1, 0)]), NilList)>>,
         <<Container(List([cpu |-> Q(1500, -3), memory |-> Q(1, 9)]), NilList)>> >> }

CombinePodLists ==
    UNION { { [i \in 1..Len(ks) |->
                 [Name |-> ks[i][2], Namespace |-> ks[i][1], NodeName |-> "node1",
                  Containers |-> ss[i][1], InitContainers |-> ss[i][2]]] :
              ss \in [1..Len(ks) -> CombinePodSpecs] } :
            ks \in Listings(PodKeys, MaxPods) }

NodeNames == <<"node1", "node2">>

\* usage of a node: 250m and 512 bytes; 1500m and 1500M; 2 cores and 200M;
\* no usage
NodeUsageSet ==
    { List([cpu |-> Q(250, -3), memory |-> Q(512, 0)]),
      List([cpu |-> Q(1500, -3), memory |-> Q(15, 8)]),
      List([cpu |-> Q(2, 0), memory |-> Q(200, 6)]),
      List([cpu |-> ZeroQuantity, memory |-> ZeroQuantity]) }

NodeMetricsLists ==
    UNION { { [i \in 1..Len(ns) |-> [Name |-> ns[i], Usage |-> us[i]]] :
              us \in [1..Len(ns) -> NodeUsageSet] } :
            ns \in Listings(NodeNames, MaxMetrics) }

\* the pods the aggregator lists: one with requests and limits on node1, one
\* with requests only on node2, one that is not scheduled
NodePodSpecs ==
    { Pod("", "node1", <<Container(List([cpu |-> Q(100, -3), memory |-> Q(64, 6)]),
                                   List([cpu |-> Q(200, -3), memory |-> Q(128, 6)]))>>,
          <<>>),
      Pod("", "node2", <<Container(List([cpu |-> Q(1, 0)]), NilList)>>,
          <<Container(List([cpu |-> Q(1500, -3), memory |-> Q(1, 9)]), NilList)>>),
      Pod("", "", <<Container(List([cpu |-> Q(100, -3), memory |-> Q(64, 6)]),
                              List([cpu |-> Q(200, -3), memory |-> Q(128, 6)]))>>,
          <<>>) }

NodePodLists ==
    { [i \in 1..Len(l) |-> [l[i] EXCEPT !.Name = PodName(i)]] :
        l \in SeqsUpTo(NodePodSpecs, MaxPods) }

\* status of a node: both lists with both totals; a Capacity list with a
\* CPU total only and no Allocatable list
NodeStatusSet ==
    { [Capacity    |-> List([cpu |-> Q(8, 0), memory |-> Q(2, 9)]),
       Allocatable |-> List([cpu |-> Q(4, 0), memory |-> Q(Gi, 0)])],
      [Capacity    |-> List([cpu |-> Q(8, 0)]),
       Allocatable |-> NilList] }

\* node listings: any of the nodes, each with any status
NodeItemLists ==
    UNION { { [i \in 1..Len(ns) |->
                 [Name |-> ns[i], Capacity |-> st[i].Capacity,
                  Allocatable |-> st[i].Allocatable]] :
              st \in [1..Len(ns) -> NodeStatusSet] } :
            ns \in Listings(NodeNames, Len(NodeNames)) }

(***************************************************************************)
(* SpecCombine: one call of a combiner on what the fetchers returned.      *)
(***************************************************************************)
InitCombinePods ==
    /\ IdleRun
    /\ pc = "start"
    /\ call = [fn |-> "combineMetricsAndResources"]
    /\ result = ""
    /\ metricsList \in PodMetricsLists
    /\ metrics = GetPodMetrics(metricsList, <<>>)
    /\ nodeList = <<>>
    /\ podList \in CombinePodLists
    /\ resources = GetPodResources(podList, <<>>)
    /\ nodeResources = <<>>
    /\ nodes = <<>>
    /\ combined = <<>>
    /\ err = ""
    /\ IdlePercent

InitCombineNodes ==
    /\ IdleRun
    /\ pc = "start"
    /\ call = [fn |-> "combineNodeMetricsAndResources"]
    /\ result = ""
    /\ metricsList \in NodeMetricsLists
    /\ metrics = GetNodeMetrics(metricsList, <<>>)
    /\ podList \in NodePodLists
    /\ nodeResources = AggregatePodResourcesByNode(podList)
    /\ resources = <<>>
    /\ nodeList \in NodeItemLists
    /\ nodes = GetNodeResources(nodeList, <<>>)
    /\ combined = <<>>
    /\ err = ""
    /\ node = [Capacity |-> NilList, Allocatable |-> NilList]
    /\ cpuUsageMilli = 0
    /\ memoryUsageBytes = 0
    /\ showCapacity \in BOOLEAN
    /\ cpuPercent = ""
    /\ memoryPercent = ""

InitCombine == InitCombinePods \/ InitCombineNodes

\* the pod command combines; the two map ranges run in some order
CombinePods ==
    /\ pc = "start"
    /\ call.fn = "combineMetricsAndResources"
    /\ \E metricsOrder \in Orders(DOMAIN MapByKey(metrics)),
          resourcesOrder \in Orders(DOMAIN MapByKey(resources)) :
          combined' = combineMetricsAndResources(metrics, resources,
                                                 metricsOrder, resourcesOrder)
    /\ pc' = "combined"
    /\ UNCHANGED <<runVars, podVars, err, pctVars, fmtVars, metrics, nodes,
                   metricsList, nodeList>>

\* the node command combines
CombineNodes ==
    /\ pc = "start"
    /\ call.fn = "combineNodeMetricsAndResources"
    /\ combined' = combineNodeMetricsAndResources(metrics, nodeResources,
                                                  nodes, showCapacity)
    /\ pc' = "combined"
    /\ UNCHANGED <<runVars, podVars, err, pctVars, fmtVars, metrics, nodes,
                   metricsList, nodeList>>

NextCombine == CombinePods \/ CombineNodes

SpecCombine == InitCombine /\ [][NextCombine]_vars

(***************************************************************************)
(* Properties of the formatters.                                           *)
(***************************************************************************)
Formatted(fn) == pc = "formatted" /\ call.fn = fn

\* the text is a decimal integer that spells n
Spells(text, n) == text # "" /\ AllDigits(text) /\ Atoi(text) = n

\* C12 as stated: for every non-negative v < 1000, formatCPU(v) ends in "m"
\* and the decimal number in front of the "m" is v.
C12_MilliSuffixBelowThousand ==
    (Formatted("formatCPU") /\ call.millicores < 1000) =>
        /\ HasSuffix(result, "m")
        /\ Spells(TrimSuffix(result, "m"), call.millicores)

\* C12 amended: for every v with 1 <= v < 1000, formatCPU(v) ends in "m" and
\* the decimal number in front of the "m" is v; formatCPU(0) is "0", without
\* a suffix.
C12_MilliSuffixFromOne ==
    Formatted("formatCPU") =>
        /\ (1 <= call.millicores /\ call.millicores < 1000) =>
              /\ HasSuffix(result, "m")
              /\ Spells(TrimSuffix(result, "m"), call.millicores)
        /\ call.millicores = 0 => result = "0"

\* C12 witness: formatCPU(100) returned "100m".
C12_Witness ==
    Formatted("formatCPU") /\ call.millicores = 100 /\ result = "100m"

\* the text is digits "." two digits, and spells h hundredths
SpellsHundredths(text, h) ==
    /\ Len(text) >= 4
    /\ DotAt(text) = Len(text) - 2
    /\ AllDigits(SubSeq(text, 1, Len(text) - 3))
    /\ AllDigits(SubSeq(text, Len(text) - 1, Len(text)))
    /\ Atoi(SubSeq(text, 1, Len(text) - 3)) * 100
           + Atoi(SubSeq(text, Len(text) - 1, Len(text))) = h

C14_UnitByThreshold ==
    Formatted("formatMemory") =>
        /\ call.bytes = 0 => result = "0"
        /\ (1 <= call.bytes /\ call.bytes < Pow2(10)) =>
              HasSuffix(result, "B") /\ Spells(TrimSuffix(result, "B"), call.bytes)
        /\ (Pow2(10) <= call.bytes /\ call.bytes < Pow2(20)) => HasSuffix(result, "Ki")
        /\ (Pow2(20) <= call.bytes /\ call.bytes < Pow2(30)) => HasSuffix(result, "Mi")
        /\ Pow2(30) <= call.bytes => HasSuffix(result, "Gi")
        /\ call.bytes = 1024 => result = "1.00Ki"
        /\ call.bytes = Pow2(30) => result = "1.00Gi"

\* C14 witness: formatMemory(1024) returned "1.00Ki".
C14_Witness ==
    Formatted("formatMemory") /\ call.bytes = 1024 /\ result = "1.00Ki"

(***************************************************************************)
(* SpecDisplay: everything the two commands put on screen, a formatter     *)
(* called on its own or a combiner called on what the fetchers returned.   *)
(***************************************************************************)
InitDisplay == InitFormat \/ InitCombine

NextDisplay == NextFormat \/ NextCombine

SpecDisplay == InitDisplay /\ [][NextDisplay]_vars

(***************************************************************************)
(* Properties of the combined rows.                                        *)
(***************************************************************************)
Combined(fn) == pc = "combined" /\ call.fn = fn

RowIndexes == 1..Len(combined)

\* some container of the pod (an init container included) declares a
\* non-zero request for the resource
DeclaresRequest(pod, res) ==
    \/ \E i \in 1..Len(pod.Containers) :
          Get(pod.Containers[i].Requests, res).value # 0
    \/ \E i \in 1..Len(pod.InitContainers) :
          Get(pod.InitContainers[i].Requests, res).value # 0

\* some regular container of the pod declares a non-zero limit
DeclaresLimit(pod, res) ==
    \E i \in 1..Len(pod.Containers) : Get(pod.Containers[i].Limits, res).value # 0

\* the pods of the listing a row named name may stand for
PodRowPods(name) ==
    { podList[i] : i \in { j \in 1..Len(podList) : podList[j].Name = name } }

\* the pods of the listing that count towards the row of node name
NodeRowPods(name) ==
    { podList[i] : i \in { j \in 1..Len(podList) : podList[j].NodeName = name } }

\* the four request/limit fields of a row are "-" wherever none of pods
\* declares the quantity
DashWhereNothingDeclared(row, pods) ==
    /\ (\A p \in pods : ~DeclaresRequest(p, ResourceCPU)) => row.CPURequest = "-"
    /\ (\A p \in pods : ~DeclaresLimit(p, ResourceCPU)) => row.CPULimit = "-"
    /\ (\A p \in pods : ~DeclaresRequest(p, ResourceMemory)) => row.MemoryRequest = "-"
    /\ (\A p \in pods : ~DeclaresLimit(p, ResourceMemory)) => row.MemoryLimit = "-"

RowsOfMetrics ==
    { f \in [1..Len(metrics) -> RowIndexes] :
        \A i, j \in 1..Len(metrics) : f[i] = f[j] => i = j }

\* the row shows the metric's name and usage strings
ShowsUsage(row, m) ==
    row.Name = m.Name /\ row.CPUUsage = m.CPU /\ row.MemoryUsage = m.Memory

AllDashes(row) ==
    /\ row.CPURequest = "-"
    /\ row.CPULimit = "-"
    /\ row.MemoryRequest = "-"
    /\ row.MemoryLimit = "-"

ResourceKeys == { PodKey(resources[i]) : i \in 1..Len(resources) }
MetricsKeys == { PodKey(metrics[i]) : i \in 1..Len(metrics) }

\* C16: every entity of the usage metrics produces a row of its own in the
\* combiner output (pod and node combiners) whose usage fields are the
\* metric's strings unchanged; without a matching resource aggregate its
\* four request/limit fields are all "-", and in the node combiner without
\* a matching node record both percentage fields are "-".
C16_MetricsAlwaysGiveRow ==
    /\ Combined("combineMetricsAndResources") =>
          \E f \in RowsOfMetrics : \A i \in 1..Len(metrics) :
              /\ ShowsUsage(combined[f[i]], metrics[i])
              /\ PodKey(metrics[i]) \notin ResourceKeys => AllDashes(combined[f[i]])
    /\ Combined("combineNodeMetricsAndResources") =>
          \E f \in RowsOfMetrics : \A i \in 1..Len(metrics) :
              /\ ShowsUsage(combined[f[i]], metrics[i])
              /\ metrics[i].Name \notin DOMAIN nodeResources =>
                    AllDashes(combined[f[i]])
              /\ metrics[i].Name \notin DOMAIN nodes =>
                    /\ combined[f[i]].CPUPercent = "-"
                    /\ combined[f[i]].MemoryPercent = "-"

\* C16 witness: the node combiner returned a row for a node with usage
\* "1.50" / "1.40Gi" that has neither an aggregate nor a node record.
C16_Witness ==
    /\ Combined("combineNodeMetricsAndResources")
    /\ \E i \in RowIndexes :
          /\ combined[i].Name \notin DOMAIN nodeResources
          /\ combined[i].Name \notin DOMAIN nodes
          /\ combined[i].CPUUsage = "1.50"
          /\ combined[i].MemoryUsage = "1.40Gi"
          /\ AllDashes(combined[i])
          /\ combined[i].CPUPercent = "-"

\* C16 witness for the pod combiner: a pod with metrics and no resources.
C16_PodWitness ==
    /\ Combined("combineMetricsAndResources")
    /\ \E i \in RowIndexes :
          /\ combined[i].CPUUsage = "250m"
          /\ AllDashes(combined[i])
          /\ resources = <<>>

\* the text is a number with two decimals, the given suffix behind it, and
\* the number is bytes / 2^20 to within one hundredth
ShowsMebibytes(text, bytes) ==
    /\ HasSuffix(text, "Mi")
    /\ \E d \in 0..1 :
          SpellsHundredths(TrimSuffix(text, "Mi"),
                           25 * (bytes \div Pow2(18))
                               + (25 * (bytes % Pow2(18))) \div Pow2(18) + d)

\* the memory text of a row without usage, for the quantity of the record
MemoryInMi(text, q) ==
    IF q.value = 0 THEN text = "-" ELSE ShowsMebibytes(text, Value(q))

\* the row has no usage and shows the requests and limits of the record
ShowsResourcesOnly(row, r) ==
    /\ row.Name = r.Name
    /\ row.CPUUsage = "<unknown>"
    /\ row.MemoryUsage = "<unknown>"
    /\ row.CPURequest = r.CPURequest
    /\ row.CPULimit = r.CPULimit
    /\ MemoryInMi(row.MemoryRequest, r.MemoryRequest)
    /\ MemoryInMi(row.MemoryLimit, r.MemoryLimit)

\* the elements of resources whose pod has no metrics
WithoutMetrics == { j \in 1..Len(resources) : PodKey(resources[j]) \notin MetricsKeys }

\* C17: in the pod combiner every pod present in resources but absent from
\* metrics produces exactly one row, whose CPU and memory usage are both
\* "<unknown>" and whose request/limit fields come from its resource record
\* (memory in Mi).
C17_ResourcesOnlyRow ==
    Combined("combineMetricsAndResources") =>
        \E f \in [WithoutMetrics -> RowIndexes] :
            /\ \A j, k \in WithoutMetrics : f[j] = f[k] => j = k
            /\ \A j \in WithoutMetrics : ShowsResourcesOnly(combined[f[j]], resources[j])
            /\ \A i \in RowIndexes :
                  combined[i].CPUUsage = "<unknown>" => \E j \in WithoutMetrics : f[j] = i

\* C17 witness: a pod without metrics that requests 100m / 64M and is limited
\* to 200m / 128M got the row <unknown>, 100m, 200m, <unknown>, 61.04Mi,
\* 122.07Mi, next to a row of a pod with metrics.
C17_Witness ==
    /\ Combined("combineMetricsAndResources")
    /\ metrics # <<>>
    /\ \E i \in RowIndexes :
          /\ combined[i].CPUUsage = "<unknown>"
          /\ combined[i].MemoryUsage = "<unknown>"
          /\ combined[i].CPURequest = "100m"
          /\ combined[i].CPULimit = "200m"
          /\ combined[i].MemoryRequest = "61.04Mi"
          /\ combined[i].MemoryLimit = "122.07Mi"

MetricsNames == { metrics[i].Name : i \in 1..Len(metrics) }

\* C18: in the node combiner every node present in the resource aggregates
\* but absent from the node metrics also produces a row, with usage fields
\* "<unknown>" and request/limit fields taken from the aggregate.
C18_NodeResourcesOnlyRow ==
    Combined("combineNodeMetricsAndResources") =>
        \A n \in (DOMAIN nodeResources) \ MetricsNames :
            \E i \in RowIndexes :
                /\ combined[i].Name = n
                /\ combined[i].CPUUsage = unknownValue
                /\ combined[i].MemoryUsage = unknownValue
                /\ combined[i].CPURequest = CPUText(nodeResources[n].CPURequest)
                /\ combined[i].CPULimit = CPUText(nodeResources[n].CPULimit)
                /\ MemoryInMi(combined[i].MemoryRequest, nodeResources[n].MemoryRequest)
                /\ MemoryInMi(combined[i].MemoryLimit, nodeResources[n].MemoryLimit)

\* the unit a memory text ends in ("" when it has none)
UnitOf(text) ==
    IF HasSuffix(text, "Gi") THEN "Gi"
    ELSE IF HasSuffix(text, "Mi") THEN "Mi"
    ELSE IF HasSuffix(text, "Ki") THEN "Ki"
    ELSE IF HasSuffix(text, "B") THEN "B"
    ELSE ""

\* the memory request and limit of the row, where configured, end in unit
MemoryShownIn(row, unit) ==
    /\ row.MemoryRequest # "-" => UnitOf(row.MemoryRequest) = unit
    /\ row.MemoryLimit # "-" => UnitOf(row.MemoryLimit) = unit

\* C19: in every combined row with a usage figure and a non-zero memory
\* request or limit, the request/limit string carries the same unit suffix
\* as the row's memory usage string, for every usage magnitude; in a row
\* with no usage figure the request/limit is rendered in "Mi".
C19_SameUnitAsUsage ==
    pc = "combined" =>
        \A i \in RowIndexes :
            IF combined[i].MemoryUsage = unknownValue
            THEN MemoryShownIn(combined[i], "Mi")
            ELSE MemoryShownIn(combined[i], UnitOf(combined[i].MemoryUsage))

\* C19 amended: in every combined row whose memory usage string ends in
\* "Ki", "Mi" or "Gi", a non-zero memory request or limit carries the same
\* suffix as the usage; when the usage string carries none of these (usage
\* below 1024 bytes, shown as "<n>B", or zero usage, shown as "0") or the
\* row has no usage figure, the request/limit is rendered in "Mi".
C19_SameUnitOrMi ==
    pc = "combined" =>
        \A i \in RowIndexes :
            IF UnitOf(combined[i].MemoryUsage) \in {"Ki", "Mi", "Gi"}
            THEN MemoryShownIn(combined[i], UnitOf(combined[i].MemoryUsage))
            ELSE MemoryShownIn(combined[i], "Mi")

\* C19 witness: a row with usage "1.40Gi" shows its memory request in Gi,
\* and another row of the same output with usage "512B" shows it in Mi.
C19_Witness ==
    /\ pc = "combined"
    /\ \E i, j \in RowIndexes :
          /\ combined[i].MemoryUsage = "1.40Gi"
          /\ UnitOf(combined[i].MemoryRequest) = "Gi"
          /\ combined[j].MemoryUsage = "512B"
          /\ UnitOf(combined[j].MemoryRequest) = "Mi"

\* the element of a listing stored under key k
ByKey(xs, k) == xs[CHOOSE i \in 1..Len(xs) : PodKey(xs[i]) = k]

\* the row holds the data of the pod with key k and of no other pod
ShowsPod(row, k) ==
    IF k \in MetricsKeys
    THEN /\ ShowsUsage(row, ByKey(metrics, k))
         /\ IF k \in ResourceKeys
            THEN /\ row.CPURequest = ByKey(resources, k).CPURequest
                 /\ row.CPULimit = ByKey(resources, k).CPULimit
                 /\ row.MemoryRequest = "-"
                        <=> ByKey(resources, k).MemoryRequest.value = 0
                 /\ row.MemoryLimit = "-"
                        <=> ByKey(resources, k).MemoryLimit.value = 0
            ELSE AllDashes(row)
    ELSE ShowsResourcesOnly(row, ByKey(resources, k))

\* C20: the pod combiner joins on the (namespace, name) pair: its output has
\* exactly one row per distinct key of the union of metrics and resources,
\* never two rows for one key, and two pods of one name in different
\* namespaces get separate rows, each holding its own pod's usage and
\* requests/limits.
C20_OneRowPerKey ==
    Combined("combineMetricsAndResources") =>
        /\ Len(combined) = Cardinality(MetricsKeys \cup ResourceKeys)
        /\ \E f \in [MetricsKeys \cup ResourceKeys -> RowIndexes] :
              /\ \A k, l \in MetricsKeys \cup ResourceKeys : f[k] = f[l] => k = l
              /\ \A k \in MetricsKeys \cup ResourceKeys : ShowsPod(combined[f[k]], k)

\* C20 witness: default/web and prod/web both have metrics and resources,
\* with different usage and different requests, and the output holds two
\* rows named "web" that differ in usage and in CPU request.
C20_Witness ==
    /\ Combined("combineMetricsAndResources")
    /\ {"default/web", "prod/web"} \subseteq (MetricsKeys \cap ResourceKeys)
    /\ \E i, j \in RowIndexes :
          /\ combined[i].Name = "web"
          /\ combined[j].Name = "web"
          /\ combined[i].CPUUsage # combined[j].CPUUsage
          /\ combined[i].CPURequest # combined[j].CPURequest

(***************************************************************************)
(* sortCombinedData, sortNodeData and the values they compare.             *)
(***************************************************************************)
\* x > y for two floats that are not negative
FloatGreater(x, y) ==
    IF x.mant = <<>> THEN FALSE
    ELSE IF y.mant = <<>> THEN TRUE
    ELSE IF x.exp # y.exp THEN x.exp > y.exp
    ELSE \E i \in 1..MantBits :
            /\ x.mant[i] > y.mant[i]
            /\ \A j \in 1..(i - 1) : x.mant[j] = y.mant[j]

\* the float64 parseCPUValue returns
parseCPUValue(cpuStr) ==
    IF cpuStr = "" \/ cpuStr = "-" \/ cpuStr = "<unknown>" THEN FloatZero
    ELSE Sscanf(TrimSuffix(cpuStr, "m"))

\* the int64 parseMemoryValue returns
parseMemoryValue(memStr) ==
    IF memStr = "" \/ memStr = "-" \/ memStr = "<unknown>" THEN 0
    ELSE IF HasSuffix(memStr, "Gi")
         THEN Int64(FloatMulPow2(Sscanf(memStr), 30))
    ELSE IF HasSuffix(memStr, "Mi")
         THEN Int64(FloatMulPow2(Sscanf(memStr), 20))
    ELSE IF HasSuffix(memStr, "Ki")
         THEN Int64(FloatMulPow2(Sscanf(memStr), 10))
    ELSE 0

\* the names that occur in a listing, in the order of Go's string "<"
SortedNames == <<"db", "node1", "node2", "node3", "web">>

\* a < b for two of these names
NameLess(a, b) ==
    \E i, j \in 1..Len(SortedNames) :
        SortedNames[i] = a /\ SortedNames[j] = b /\ i < j

\* the less function sortCombinedData hands to sort.Slice for sortBy
PodLess(sortBy, a, b) ==
    IF sortBy = "cpu"
    THEN FloatGreater(parseCPUValue(a.CPUUsage), parseCPUValue(b.CPUUsage))
    ELSE IF sortBy = "memory"
    THEN parseMemoryValue(a.MemoryUsage) > parseMemoryValue(b.MemoryUsage)
    ELSE NameLess(a.Name, b.Name)

\* the less function sortNodeData hands to sort.Slice for sortBy
NodeLess(sortBy, a, b) ==
    IF sortBy = "cpu"
    THEN FloatGreater(parseCPUValueForNode(a.CPUUsage),
                      parseCPUValueForNode(b.CPUUsage))
    ELSE IF sortBy = "memory"
    THEN parseMemoryValueForNode(a.MemoryUsage)
             > parseMemoryValueForNode(b.MemoryUsage)
    ELSE NameLess(a.Name, b.Name)

\* the arrangements of the elements of data
Arrangements(data) ==
    { [i \in 1..Len(data) |-> data[f[i]]] :
        f \in { g \in [1..Len(data) -> 1..Len(data)] :
                  \A i, j \in 1..Len(data) : g[i] = g[j] => i = j } }

\* sortCombinedData that keeps the order it is given
sortCombinedData_KeepsOrder(data, sortBy) == {data}

\* what sort.Slice may leave in data: the sort is not stable, so any
\* arrangement in which no element is less than one in front of it
sortCombinedData(data, sortBy) ==
    { p \in Arrangements(data) :
        \A i, j \in 1..Len(p) : i < j => ~PodLess(sortBy, p[j], p[i]) }

\* sortNodeData that keeps the order it is given
sortNodeData_KeepsOrder(data, sortBy) == {data}

sortNodeData(data, sortBy) ==
    { p \in Arrangements(data) :
        \A i, j \in 1..Len(p) : i < j => ~NodeLess(sortBy, p[j], p[i]) }

(***************************************************************************)
(* SpecSort: a sort of the rows a combiner built from a metrics listing.   *)
(***************************************************************************)
\* usage of an entity: nothing; 250m and 100 bytes; 999m and 512 bytes;
\* 1 core and 2Ki; 1500m and 1500M; 2 cores and 200M
SortUsageSet ==
    { List([cpu |-> ZeroQuantity, memory |-> ZeroQuantity]),
      List([cpu |-> Q(250, -3), memory |-> Q(100, 0)]),
      List([cpu |-> Q(999, -3), memory |-> Q(512, 0)]),
      List([cpu |-> Q(1, 0), memory |-> Q(2048, 0)]),
      List([cpu |-> Q(1500, -3), memory |-> Q(15, 8)]),
      List([cpu |-> Q(2, 0), memory |-> Q(200, 6)]) }

SortNodeNames == <<"node1", "node2", "node3">>

SortNodeLists ==
    UNION { { [i \in 1..Len(ns) |-> [Name |-> ns[i], Usage |-> us[i]]] :
              us \in [1..Len(ns) -> SortUsageSet] } :
            ns \in Listings(SortNodeNames, MaxMetrics) }

\* pods of different names, one container each
SortPodKeys == << <<"default", "db">>, <<"default", "web">> >>

SortPodLists ==
    UNION { { [i \in 1..Len(ks) |->
                 [Name |-> ks[i][2], Namespace |-> ks[i][1],
                  Containers |-> <<us[i]>>]] :
              us \in [1..Len(ks) -> SortUsageSet] } :
            ks \in Listings(SortPodKeys, MaxMetrics) }

\* the values of the sort flag: the two usage keys, and two words that are
\* no usage key and sort by name
SortFlags == {"cpu", "memory", "name", "invalid"}

InitSortPods ==
    /\ IdleRun
    /\ pc = "combined"
    /\ \E sortBy \in SortFlags : call = [fn |-> "sortCombinedData", sortBy |-> sortBy]
    /\ result = ""
    /\ metricsList \in SortPodLists
    /\ metrics = GetPodMetrics(metricsList, <<>>)
    /\ \E order \in Orders(DOMAIN MapByKey(metrics)) :
          combined = combineMetricsAndResources(metrics, <<>>, order, <<>>)
    /\ nodes = <<>>
    /\ nodeList = <<>>
    /\ IdlePods
    /\ IdlePercent

InitSortNodes ==
    /\ IdleRun
    /\ pc = "combined"
    /\ \E sortBy \in SortFlags : call = [fn |-> "sortNodeData", sortBy |-> sortBy]
    /\ result = ""
    /\ metricsList \in SortNodeLists
    /\ metrics = GetNodeMetrics(metricsList, <<>>)
    /\ combined = combineNodeMetricsAndResources(metrics, <<>>, <<>>, FALSE)
    /\ nodes = <<>>
    /\ nodeList = <<>>
    /\ IdlePods
    /\ IdlePercent

InitSort == InitSortPods \/ InitSortNodes

SortPods ==
    /\ pc = "combined"
    /\ call.fn = "sortCombinedData"
    /\ combined' \in sortCombinedData(combined, call.sortBy)
    /\ pc' = "sorted"
    /\ UNCHANGED <<runVars, podVars, err, pctVars, fmtVars, metrics, nodes,
                   metricsList, nodeList>>

SortNodes ==
    /\ pc = "combined"
    /\ call.fn = "sortNodeData"
    /\ combined' \in sortNodeData(combined, call.sortBy)
    /\ pc' = "sorted"
    /\ UNCHANGED <<runVars, podVars, err, pctVars, fmtVars, metrics, nodes,
                   metricsList, nodeList>>

NextSort == SortPods \/ SortNodes

SpecSort == InitSort /\ [][NextSort]_vars

(***************************************************************************)
(* Properties of the sorted rows.                                          *)
(***************************************************************************)
Sorted(sortBy) == pc = "sorted" /\ call.sortBy = sortBy

\* the item of the metrics listing a row was built from
ItemOf(row) == metricsList[CHOOSE i \in 1..Len(metricsList) :
                               metricsList[i].Name = row.Name]

\* the milli-cores and the bytes the entity of a row uses
UsedMilli(row) ==
    IF call.fn = "sortCombinedData" THEN TotalCPU(ItemOf(row).Containers)
    ELSE MilliValue(Get(ItemOf(row).Usage, ResourceCPU))
UsedBytes(row) ==
    IF call.fn = "sortCombinedData" THEN TotalMemory(ItemOf(row).Containers)
    ELSE Value(Get(ItemOf(row).Usage, ResourceMemory))

\* C21: after sorting with sortBy = "cpu" (sortNodeData, sortCombinedData),
\* rows whose CPU usage strings were produced by formatCPU are in
\* non-increasing order of the underlying milli-core usage, for all usage
\* values including a mix of values below and at or above 1000m.
C21_SortedByCPU ==
    Sorted("cpu") =>
        \A i, j \in RowIndexes :
            i < j => UsedMilli(combined[i]) >= UsedMilli(combined[j])

\* C22: after sorting with sortBy = "memory" (sortNodeData,
\* sortCombinedData), rows whose memory usage strings were produced by
\* formatMemory are in non-increasing order of the underlying byte usage
\* whenever the displayed strings differ, including usages below 1024 bytes
\* rendered with the "B" suffix.
C22_SortedByMemory ==
    Sorted("memory") =>
        \A i, j \in RowIndexes :
            (i < j /\ combined[i].MemoryUsage # combined[j].MemoryUsage)
                => UsedBytes(combined[i]) >= UsedBytes(combined[j])

(***************************************************************************)
(* SpecParse: one call of a function that reads a display string.          *)
(***************************************************************************)
\* display strings: what the formatters print, the sentinels, and text the
\* formatters never print
DisplayStrings ==
    { formatCPU(v) : v \in {0, 1, 250, 999, 1000, 1500, 2000, 12340} }
        \cup { formatMemory(b) : b \in MemoryBytes }
        \cup MemoryStrings
        \cup {"abc", "m", "Gi", "1.5x", "12.5m", "."}

ParseFunctions ==
    {"parseCPUValue", "parseMemoryValue", "parseCPUValueForNode",
     "parseMemoryValueForNode"}

ParseCalls ==
    { [fn |-> "ExtractMemoryUnit", memoryStr |-> t] : t \in DisplayStrings }
    \cup { [fn |-> f, str |-> t] : f \in ParseFunctions, t \in DisplayStrings }

InitParse ==
    /\ IdleRun
    /\ pc = "start"
    /\ call \in ParseCalls
    /\ result = ""
    /\ IdlePods
    /\ IdlePercent
    /\ IdleCombine

CallParseCPUValue ==
    /\ pc = "start" /\ call.fn = "parseCPUValue"
    /\ Returned(parseCPUValue(call.str))

CallParseMemoryValue ==
    /\ pc = "start" /\ call.fn = "parseMemoryValue"
    /\ Returned(parseMemoryValue(call.str))

CallParseCPUValueForNode ==
    /\ pc = "start" /\ call.fn = "parseCPUValueForNode"
    /\ Returned(parseCPUValueForNode(call.str))

CallParseMemoryValueForNode ==
    /\ pc = "start" /\ call.fn = "parseMemoryValueForNode"
    /\ Returned(parseMemoryValueForNode(call.str))

NextParse ==
    \/ CallExtractMemoryUnit
    \/ CallParseCPUValue
    \/ CallParseMemoryValue
    \/ CallParseCPUValueForNode
    \/ CallParseMemoryValueForNode

SpecParse == InitParse /\ [][NextParse]_vars

(***************************************************************************)
(* Properties of the functions that read display strings.                  *)
(***************************************************************************)
Sentinels == {"", "-", "<unknown>"}

\* the string ends in one of the suffixes ExtractMemoryUnit recognises
EndsInUnit(t) == \E u \in {"Gi", "Mi", "Ki", "G", "M", "K"} : HasSuffix(t, u)

\* C23: malformed or sentinel display strings never raise an error:
\* ExtractMemoryUnit always returns one of "Ki", "Mi", "Gi", and "Mi" for
\* the empty string, "-", "<unknown>" and any string with no recognised
\* unit suffix; the CPU and memory sort-value parsers return 0 for the
\* empty string, "-" and "<unknown>".
C23_DefaultsForSentinels ==
    /\ Formatted("ExtractMemoryUnit") =>
          /\ result \in {"Ki", "Mi", "Gi"}
          /\ (call.memoryStr \in Sentinels \/ ~EndsInUnit(call.memoryStr))
                => result = "Mi"
    /\ \A f \in {"parseCPUValue", "parseCPUValueForNode"} :
          (Formatted(f) /\ call.str \in Sentinels) => result = FloatZero
    /\ \A f \in {"parseMemoryValue", "parseMemoryValueForNode"} :
          (Formatted(f) /\ call.str \in Sentinels) => result = 0

\* C23 witness: ExtractMemoryUnit("512B") returned "Mi".
C23_Witness ==
    Formatted("ExtractMemoryUnit") /\ call.memoryStr = "512B" /\ result = "Mi"

\* C23 witness for a parser: parseMemoryValue("<unknown>") returned 0.
C23_ParserWitness ==
    Formatted("parseMemoryValue") /\ call.str = "<unknown>" /\ result = 0

(***************************************************************************)
(* RunPod and RunNode: the availability check, the fetch goroutines, the   *)
(* wait loop, and the combine, sort and print steps.                       *)
(***************************************************************************)
ErrFetchPodMetrics == "failed to fetch pod metrics"
ErrFetchNodeMetrics == "failed to fetch node metrics"
ErrFetchNodes == "failed to fetch nodes"
ErrDiscover == "failed to discover API groups"
ErrNoMetricsAPI == "metrics API (metrics.k8s.io) not available in the cluster"

\* what CheckMetricsAPIAvailable may return: nil or one of its two errors
CheckResults == {"", ErrDiscover, ErrNoMetricsAPI}

\* the error RunPod / RunNode returns when the check returned e
WrapCheckError(e) ==
    "metrics API not available: " \o e
        \o "\nPlease ensure metrics-server is installed in your cluster"

\* the fetches of a command, in the order of its go statements
Fetchers(fn) ==
    IF fn = "RunPod"
    THEN <<"GetPodMetrics", "GetPodResources">>
    ELSE <<"GetNodeMetrics", "AggregatePodResourcesByNode", "GetNodeResources">>

FetcherSet(fn) == {Fetchers(fn)[k] : k \in 1..Len(Fetchers(fn))}

\* the channel a goroutine sends the result of its fetch on
ResultChan(t) ==
    CASE t = "GetPodMetrics" -> "metricsChan"
      [] t = "GetPodResources" -> "resourcesChan"
      [] t = "GetNodeMetrics" -> "nodeMetricsChan"
      [] t = "AggregatePodResourcesByNode" -> "nodeResourcesChan"
      [] t = "GetNodeResources" -> "nodesChan"

Channels(fn) == {ResultChan(t) : t \in FetcherSet(fn)} \cup {"errChan"}

\* an error channel with room for one error only
Capacity_OneError(fn, c) == 1

\* the capacity each channel is made with
Capacity(fn, c) ==
    IF c = "errChan" THEN (IF fn = "RunPod" THEN 2 ELSE 3) ELSE 1

\* a wait loop that receives once
Receives_Once(fn) == 1

\* the number of iterations of the wait loop
Receives(fn) == IF fn = "RunPod" THEN 2 ELSE 3

\* a caller that goes on after a failed check
AfterCheck_IgnoresError(e) == "go"

\* where the caller goes after the check returned e
AfterCheck(e) == IF e # "" THEN "returned" ELSE "go"

\* a wait loop that drops an error it receives and keeps waiting
AfterError_KeepsWaiting(e) == [pc |-> "select", err |-> ""]

\* a wait loop that returns a new error for the one it receives
AfterError_NewError(e) == [pc |-> "returned", err |-> "fetch failed"]

\* the select case of the error channel: return err
AfterError(e) == [pc |-> "returned", err |-> e]

\* what a fetch returns when the API call it makes succeeds
FetchValue(t, names) ==
    CASE t = "GetPodMetrics" -> GetPodMetrics(metricsList, names)
      [] t = "GetPodResources" -> GetPodResources(podList, names)
      [] t = "GetNodeMetrics" -> GetNodeMetrics(metricsList, names)
      [] t = "AggregatePodResourcesByNode" -> AggregatePodResourcesByNode(podList)
      [] t = "GetNodeResources" -> GetNodeResources(nodeList, names)

\* the error a fetch returns when the API call it makes fails
FetchError(t) ==
    CASE t = "GetPodMetrics" -> ErrFetchPodMetrics
      [] t = "GetPodResources" -> ErrFetchPods
      [] t = "GetNodeMetrics" -> ErrFetchNodeMetrics
      [] t = "AggregatePodResourcesByNode" -> ErrFetchPods
      [] t = "GetNodeResources" -> ErrFetchNodes

\* the message on stderr when there is no row
NoneFound(fn) == IF fn = "RunPod" THEN "No pods found" ELSE "No nodes found"

\* the sort of RunPod / RunNode: by the flag when it is set, by name else
SortRows(fn, data, sortBy) ==
    IF sortBy # ""
    THEN (IF fn = "RunPod" THEN sortCombinedData(data, sortBy)
                           ELSE sortNodeData(data, sortBy))
    ELSE { p \in Arrangements(data) :
             \A j, k \in 1..Len(p) : j < k => ~NameLess(p[k].Name, p[j].Name) }

(***************************************************************************)
(* SpecRun: one call of RunPod or RunNode with its goroutines.             *)
(***************************************************************************)
\* what the Metrics API lists for the pod command: nothing; two pods
RunPodMetricsLists ==
    { <<>>,
      << [Name |-> "web", Namespace |-> "default",
          Containers |-> << List([cpu |-> Q(250, -3), memory |-> Q(64, 6)]) >>],
         [Name |-> "db", Namespace |-> "default",
          Containers |-> << List([cpu |-> Q(1, 0), memory |-> Q(200, 6)]) >>] >> }

\* what the pod listing holds: nothing; the pod web with a CPU request and
\* a CPU limit
RunPodLists ==
    { <<>>,
      << [Name |-> "web", Namespace |-> "default", NodeName |-> "node1",
          Containers |-> <<Container(List([cpu |-> Q(1, 0)]),
                                     List([cpu |-> Q(2, 0)]))>>,
          InitContainers |-> <<>>] >> }

\* what the Metrics API lists for the node command: nothing; two nodes
RunNodeMetricsLists ==
    { <<>>,
      << [Name |-> "node2", Usage |-> List([cpu |-> Q(250, -3), memory |-> Q(200, 6)])],
         [Name |-> "node1", Usage |-> List([cpu |-> Q(2, 0), memory |-> Q(512, 0)])] >> }

\* what the node listing holds: nothing; the two nodes
RunNodeLists ==
    { <<>>,
      << [Name |-> "node1",
          Capacity |-> List([cpu |-> Q(8, 0), memory |-> Q(2, 9)]),
          Allocatable |-> List([cpu |-> Q(4, 0), memory |-> Q(Gi, 0)])],
         [Name |-> "node2", Capacity |-> List([cpu |-> Q(8, 0)]),
          Allocatable |-> NilList] >> }

\* the sort flag: not given, or by CPU usage
RunSortFlags == {"", "cpu"}

RunCalls(fn) ==
    { [fn |-> fn, names |-> <<>>, sortBy |-> sortBy, checkResult |-> e] :
        sortBy \in RunSortFlags, e \in CheckResults }

\* before the first statement: no goroutine, no channel, nothing received
InitRun(fn) ==
    /\ pc = "check"
    /\ call \in RunCalls(fn)
    /\ result = ""
    /\ metrics = <<>>
    /\ resources = <<>>
    /\ nodeResources = <<>>
    /\ nodes = <<>>
    /\ combined = <<>>
    /\ err = ""
    /\ node = [Capacity |-> NilList, Allocatable |-> NilList]
    /\ cpuUsageMilli = 0
    /\ memoryUsageBytes = 0
    /\ cpuPercent = ""
    /\ memoryPercent = ""
    /\ loopI = 0
    /\ goroutine = [t \in FetcherSet(fn) |->
                       [at |-> "unstarted", value |-> <<>>, err |-> ""]]
    /\ chans = <<>>
    /\ received = {}
    /\ output = [stdout |-> <<>>, stderr |-> ""]

InitRunPod ==
    /\ metricsList \in RunPodMetricsLists
    /\ podList \in RunPodLists
    /\ nodeList = <<>>
    /\ showCapacity = FALSE
    /\ InitRun("RunPod")

InitRunNode ==
    /\ metricsList \in RunNodeMetricsLists
    /\ podList \in RunPodLists
    /\ nodeList \in RunNodeLists
    /\ showCapacity \in BOOLEAN
    /\ InitRun("RunNode")

InitRunCommand == InitRunPod \/ InitRunNode

runInputs == <<podList, metricsList, nodeList, pctVars, fmtVars>>
runLocals == <<metrics, resources, nodeResources, nodes>>

\* CheckMetricsAPIAvailable returns; on nil the channels are made
RunCheck ==
    /\ pc = "check"
    /\ pc' = AfterCheck(call.checkResult)
    /\ err' = IF pc' = "returned" THEN WrapCheckError(call.checkResult) ELSE ""
    /\ chans' = IF pc' = "returned" THEN chans
                ELSE [c \in Channels(call.fn) |-> <<>>]
    /\ UNCHANGED <<runInputs, runLocals, combined, loopI, goroutine, received, output>>

\* the next go statement starts its goroutine; after the last one the
\* caller enters the wait loop
RunGo ==
    /\ pc = "go"
    /\ LET order == Fetchers(call.fn)
           k == CHOOSE k \in 1..Len(order) :
                   /\ goroutine[order[k]].at = "unstarted"
                   /\ \A j \in 1..(k - 1) : goroutine[order[j]].at # "unstarted"
       IN  /\ goroutine' = [goroutine EXCEPT ![order[k]].at = "fetch"]
           /\ pc' = IF k = Len(order) THEN "select" ELSE "go"
    /\ loopI' = 0
    /\ UNCHANGED <<runInputs, runLocals, combined, err, chans, received, output>>

\* the fetch of goroutine t returns a value or an error
Fetch(t) ==
    /\ t \in DOMAIN goroutine
    /\ goroutine[t].at = "fetch"
    /\ \E ok \in BOOLEAN :
          goroutine' = [goroutine EXCEPT ![t] =
             IF ok THEN [at |-> "send", value |-> FetchValue(t, call.names), err |-> ""]
                   ELSE [at |-> "send", value |-> <<>>, err |-> FetchError(t)]]
    /\ UNCHANGED <<pc, runInputs, runLocals, combined, err, loopI, chans, received,
                   output>>

\* the channel goroutine t sends on, and what it sends
SendChan(t) == IF goroutine[t].err # "" THEN "errChan" ELSE ResultChan(t)
SendValue(t) == IF goroutine[t].err # "" THEN goroutine[t].err ELSE goroutine[t].value

\* goroutine t sends, which it can while the buffer has room, and ends
Send(t) ==
    /\ t \in DOMAIN goroutine
    /\ goroutine[t].at = "send"
    /\ Len(chans[SendChan(t)]) < Capacity(call.fn, SendChan(t))
    /\ chans' = [chans EXCEPT ![SendChan(t)] = Append(@, SendValue(t))]
    /\ goroutine' = [goroutine EXCEPT ![t].at = "done"]
    /\ UNCHANGED <<pc, runInputs, runLocals, combined, err, loopI, received, output>>

\* one iteration of the wait loop: select takes any case that is ready
RunSelect ==
    /\ pc = "select"
    /\ \E c \in DOMAIN chans :
          /\ chans[c] # <<>>
          /\ chans' = [chans EXCEPT ![c] = Tail(@)]
          /\ IF c = "errChan"
             THEN /\ pc' = AfterError(Head(chans[c])).pc
                  /\ err' = AfterError(Head(chans[c])).err
                  /\ UNCHANGED <<runLocals, loopI, received>>
             ELSE /\ metrics' = IF c \in {"metricsChan", "nodeMetricsChan"}
                                THEN Head(chans[c]) ELSE metrics
                  /\ resources' = IF c = "resourcesChan"
                                  THEN Head(chans[c]) ELSE resources
                  /\ nodeResources' = IF c = "nodeResourcesChan"
                                      THEN Head(chans[c]) ELSE nodeResources
                  /\ nodes' = IF c = "nodesChan" THEN Head(chans[c]) ELSE nodes
                  /\ received' = received \cup {c}
                  /\ loopI' = loopI + 1
                  /\ pc' = IF loopI + 1 < Receives(call.fn) THEN "select" ELSE "combine"
                  /\ err' = err
    /\ UNCHANGED <<runInputs, combined, goroutine, output>>

\* the combiner runs; with no row the command reports it and returns nil
RunCombine ==
    /\ pc = "combine"
    /\ IF call.fn = "RunPod"
       THEN \E metricsOrder \in Orders(DOMAIN MapByKey(metrics)),
               resourcesOrder \in Orders(DOMAIN MapByKey(resources)) :
               combined' = combineMetricsAndResources(metrics, resources,
                                                     metricsOrder, resourcesOrder)
       ELSE combined' = combineNodeMetricsAndResources(metrics, nodeResources,
                                                      nodes, showCapacity)
    /\ IF Len(combined') = 0
       THEN /\ output' = [output EXCEPT !.stderr = NoneFound(call.fn)]
            /\ pc' = "returned"
       ELSE /\ output' = output
            /\ pc' = "sort"
    /\ UNCHANGED <<runInputs, runLocals, err, loopI, goroutine, chans, received>>

\* the rows are sorted
RunSort ==
    /\ pc = "sort"
    /\ combined' \in SortRows(call.fn, combined, call.sortBy)
    /\ pc' = "print"
    /\ UNCHANGED <<runInputs, runLocals, err, loopI, goroutine, chans, received, output>>

\* the table is printed and the command returns nil
RunPrint ==
    /\ pc = "print"
    /\ output' = [output EXCEPT !.stdout = combined]
    /\ pc' = "returned"
    /\ UNCHANGED <<runInputs, runLocals, combined, err, loopI, goroutine, chans,
                   received>>

Caller == RunCheck \/ RunGo \/ RunSelect \/ RunCombine \/ RunSort \/ RunPrint

Goroutine(t) == Fetch(t) \/ Send(t)

AllFetchers == FetcherSet("RunPod") \cup FetcherSet("RunNode")

NextRun ==
    \/ RunCheck
    \/ RunGo
    \/ \E t \in AllFetchers : Fetch(t)
    \/ \E t \in AllFetchers : Send(t)
    \/ RunSelect
    \/ RunCombine
    \/ RunSort
    \/ RunPrint

SpecRun == InitRunCommand /\ [][NextRun]_vars

\* SpecRunFair: the scheduler runs every goroutine that can take a step,
\* and every fetch call returns.  The steps that are enabled do not depend
\* on what the listings hold nor on the sort flag: the pod and node listings
\* are empty here, the listing of the Metrics API is not, and the rows are
\* sorted by name.
InitRunFair ==
    /\ podList = <<>>
    /\ nodeList = <<>>
    /\ InitRunCommand
    /\ call.sortBy = ""

SpecRunFair ==
    /\ InitRunFair
    /\ [][NextRun]_vars
    /\ WF_vars(Caller)
    /\ \A t \in AllFetchers : WF_vars(Goroutine(t))

(***************************************************************************)
(* Properties of RunPod and RunNode.                                       *)
(***************************************************************************)
Running == call.fn \in {"RunPod", "RunNode"}

\* the caller is at the combine step or past it
PastWaitLoop == pc \in {"combine", "sort", "print"}

\* some fetch has returned an error
SomeFetchFailed == \E t \in DOMAIN goroutine : goroutine[t].err # ""

\* the variable of the caller that the result of fetch t is received into
LocalOf(t) ==
    CASE t \in {"GetPodMetrics", "GetNodeMetrics"} -> metrics
      [] t = "GetPodResources" -> resources
      [] t = "AggregatePodResourcesByNode" -> nodeResources
      [] t = "GetNodeResources" -> nodes

NothingWritten == output = [stdout |-> <<>>, stderr |-> ""]

\* C24: RunPod and RunNode never proceed with partial inputs: the combine
\* step is reached only after every one of the 2 (pod) or 3 (node) fetches
\* has succeeded and its result has been received into its own variable;
\* if any fetch fails, the combine, sort and print steps are never executed.
C24_NoPartialInputs ==
    Running =>
       /\ PastWaitLoop =>
             \A t \in DOMAIN goroutine :
                /\ goroutine[t].at = "done"
                /\ goroutine[t].err = ""
                /\ ResultChan(t) \in received
                /\ LocalOf(t) = goroutine[t].value
       /\ SomeFetchFailed =>
             /\ ~PastWaitLoop
             /\ combined = <<>>
             /\ NothingWritten

\* C24 witness: RunNode is about to print the rows it combined from the
\* three results it received.
C24_Witness ==
    /\ call.fn = "RunNode"
    /\ pc = "print"
    /\ Len(combined) = 2
    /\ received = {"nodeMetricsChan", "nodeResourcesChan", "nodesChan"}

\* C24 witness of a failure: one fetch of RunPod failed, the other one
\* succeeded and its result was received, and the caller has returned.
C24_FailureWitness ==
    /\ call.fn = "RunPod"
    /\ pc = "returned"
    /\ goroutine["GetPodResources"].err # ""
    /\ received = {"metricsChan"}
    /\ combined = <<>>

\* the caller takes the error case of the select
ReceivesError ==
    /\ pc = "select"
    /\ Len(chans'["errChan"]) < Len(chans["errChan"])

\* C25: if at least one fetch task fails, RunPod/RunNode returns an error
\* in every interleaving, the returned error is exactly the error value
\* sent by one of the failed fetch tasks, and the caller returns on the
\* first error it receives without waiting for or cancelling the remaining
\* fetch tasks.
C25_FirstErrorReturned ==
    /\ [](Running =>
            /\ (pc = "returned" /\ SomeFetchFailed) => err # ""
            /\ (pc = "returned" /\ err # "" /\ call.checkResult = "") =>
                  \E t \in DOMAIN goroutine :
                     goroutine[t].at = "done" /\ goroutine[t].err = err)
    /\ [][ReceivesError =>
            /\ pc' = "returned"
            /\ err' = Head(chans["errChan"])
            /\ goroutine' = goroutine]_vars
    /\ (Running /\ SomeFetchFailed) ~> (pc = "returned" /\ err # "")

\* C25 witness: RunNode has returned the error of GetNodeResources while
\* another fetch is still running.
C25_Witness ==
    /\ call.fn = "RunNode"
    /\ pc = "returned"
    /\ err = ErrFetchNodes
    /\ goroutine["GetNodeMetrics"].at = "fetch"

\* the number of messages in the buffers of the channels
RECURSIVE Buffered(_)
Buffered(cs) ==
    IF cs = {} THEN 0
    ELSE LET c == CHOOSE c \in cs : TRUE
         IN  Len(chans[c]) + Buffered(cs \ {c})

\* the number of receives the caller has made
ReceivesMade ==
    Cardinality(received)
        + (IF pc = "returned" /\ err # "" /\ call.checkResult = "" THEN 1 ELSE 0)

\* the position of goroutine t, "none" for a fetch of the other command
At(t) == IF t \in DOMAIN goroutine THEN goroutine[t].at ELSE "none"

GoroutinesDone == Cardinality({t \in DOMAIN goroutine : goroutine[t].at = "done"})

\* C27: RunPod and RunNode are deadlock-free: each fetch goroutine performs
\* exactly one send (on its result channel or on the error channel) and
\* that send never blocks, even after the caller has returned on an earlier
\* error, and the caller returns after at most 2 (pod) or 3 (node) receives
\* provided every fetch call returns.
C27_DeadlockFree ==
    /\ [](Running =>
            /\ \A t \in DOMAIN goroutine :
                  goroutine[t].at = "send" => ENABLED Send(t)
            /\ GoroutinesDone = Buffered(DOMAIN chans) + ReceivesMade
            /\ ReceivesMade <= (IF call.fn = "RunPod" THEN 2 ELSE 3))
    /\ [][\A t \in DOMAIN goroutine :
            goroutine[t].at = "done" => goroutine'[t] = goroutine[t]]_vars
    /\ \A t \in AllFetchers : (At(t) = "fetch") ~> (At(t) = "done")
    /\ Running ~> (pc = "returned")

\* C27 witness: RunNode returned on the first error, and the two other
\* goroutines have sent their errors after it and ended.
C27_Witness ==
    /\ call.fn = "RunNode"
    /\ call.checkResult = ""
    /\ pc = "returned"
    /\ Len(chans["errChan"]) = 2
    /\ \A t \in DOMAIN goroutine : goroutine[t].at = "done"

\* C28: the Metrics API availability check happens before any fetch: when
\* CheckMetricsAPIAvailable fails, RunPod/RunNode returns an error wrapping
\* it without starting any fetch goroutine, combining, or printing; fetch
\* goroutines are started only after the check succeeded.
C28_CheckBeforeFetch ==
    Running =>
       /\ (call.checkResult # "" /\ pc # "check") =>
             /\ pc = "returned"
             /\ err = WrapCheckError(call.checkResult)
             /\ \A t \in DOMAIN goroutine : goroutine[t].at = "unstarted"
             /\ combined = <<>>
             /\ NothingWritten
       /\ (\E t \in DOMAIN goroutine : goroutine[t].at # "unstarted") =>
             /\ call.checkResult = ""
             /\ pc # "check"

\* C28 witness: the check found no Metrics API and RunPod has returned.
C28_Witness ==
    /\ call.fn = "RunPod"
    /\ pc = "returned"
    /\ err = WrapCheckError(ErrNoMetricsAPI)

(***************************************************************************)
(* The CPU percentage of a node row against the usage the Metrics API      *)
(* reported.                                                               *)
(***************************************************************************)
\* the CPU total the percentage of node n refers to
CPUReference(n) ==
    IF showCapacity THEN Get(n.Capacity, ResourceCPU)
    ELSE Get(n.Allocatable, ResourceCPU)

\* the CPU usage of the k-th node of the metrics listing, in milli-cores
ActualMilli(k) == MilliValue(Get(metricsList[k].Usage, ResourceCPU))

\* C26: for every node with a node record and a positive CPU reference
\* total, the CPU% field of the row built by the node command equals
\* CalculateNodePercentages applied to the node's actual milli-core usage,
\* for all usage values including usage of 1000m or more (usage 2000m of
\* allocatable 4000m shows "50%").
C26_CPUPercentOfActualUsage ==
    Combined("combineNodeMetricsAndResources") =>
       \A k \in RowIndexes :
          (/\ combined[k].Name \in DOMAIN nodes
           /\ MilliValue(CPUReference(nodes[combined[k].Name])) > 0)
             => combined[k].CPUPercent
                   = CalculateNodePercentages(nodes[combined[k].Name],
                                              ActualMilli(k), 0, showCapacity)[1]

(***************************************************************************)
(* Bounds of the aggregated requests of a node.                            *)
(***************************************************************************)
\* sum of the requests of all regular containers of the pods ps
AllRegularRequests(ps, res) ==
    Sum([k \in 1..Len(ps) |-> RegularRequests(ps[k], res)])

\* largest request of an init container of the pods ps
LargestInitRequestOn(ps, res) ==
    Largest([k \in 1..Len(ps) |-> LargestInitRequest(ps[k], res)])

\* sum over the pods ps of max(regular sum, largest init request)
AllEffectiveRequests(ps, res) ==
    Sum([k \in 1..Len(ps) |-> EffectiveRequest(ps[k], res)])

\* the request of node n after the first k pods of the listing, 0 while the
\* node has no entry
RunningRequest(k, n, res) ==
    LET m == AggregatePodResourcesByNode(SubSeq(podList, 1, k))
    IN  IF n \in DOMAIN m THEN Num(RequestOf(m[n], res)) ELSE 0

\* C29: for every pod list and processing order, each node's aggregated
\* request R (CPU and memory) satisfies max(sum of all regular-container
\* requests on the node, largest init-container request on the node) <= R
\* <= sum over the node's pods of max(pod's regular-container sum, pod's
\* largest init-container request); the running total never decreases
\* while pods are processed.
C29_RequestBounds ==
    pc = "aggregated" =>
        \A n \in DOMAIN nodeResources : \A res \in Resources :
            LET ps == PodsOn(podList, n)
                R  == Num(RequestOf(nodeResources[n], res))
            IN  /\ AllRegularRequests(ps, res) <= R
                /\ LargestInitRequestOn(ps, res) <= R
                /\ R <= AllEffectiveRequests(ps, res)
                /\ \A k \in 1..Len(podList) :
                      RunningRequest(k - 1, n, res) <= RunningRequest(k, n, res)
                /\ RunningRequest(Len(podList), n, res) = R

\* C29 witness: two pods on node1 whose CPU request total lies strictly
\* between the two bounds.
C29_Witness ==
    /\ pc = "aggregated"
    /\ "node1" \in DOMAIN nodeResources
    /\ Len(PodsOn(podList, "node1")) = 2
    /\ AllRegularRequests(PodsOn(podList, "node1"), ResourceCPU)
          < Num(nodeResources["node1"].CPURequest)
    /\ LargestInitRequestOn(PodsOn(podList, "node1"), ResourceCPU)
          < Num(nodeResources["node1"].CPURequest)
    /\ Num(nodeResources["node1"].CPURequest)
          < AllEffectiveRequests(PodsOn(podList, "node1"), ResourceCPU)

(***************************************************************************)
(* SpecFetch: one call of a fetcher on a listing, with a list of names.    *)
(***************************************************************************)
\* the names on the command line: none; one; two; one twice; one that no
\* listed entity has
FetchPodNames == { <<>>, <<"web">>, <<"web", "db">>, <<"web", "web">>, <<"api">> }
FetchNodeNames ==
    { <<>>, <<"node1">>, <<"node2", "node1">>, <<"node1", "node1">>, <<"node3">> }

FetchCalls(fn, nameArgs) == { [fn |-> fn, names |-> names] : names \in nameArgs }

InitFetch ==
    /\ IdleRun
    /\ IdlePercent
    /\ pc = "start"
    /\ result = ""
    /\ metrics = <<>>
    /\ resources = <<>>
    /\ nodeResources = <<>>
    /\ nodes = <<>>
    /\ combined = <<>>
    /\ err = ""
    /\ \/ /\ metricsList \in PodMetricsLists
          /\ podList = <<>> /\ nodeList = <<>>
          /\ call \in FetchCalls("GetPodMetrics", FetchPodNames)
       \/ /\ podList \in CombinePodLists
          /\ metricsList = <<>> /\ nodeList = <<>>
          /\ call \in FetchCalls("GetPodResources", FetchPodNames)
       \/ /\ metricsList \in NodeMetricsLists
          /\ podList = <<>> /\ nodeList = <<>>
          /\ call \in FetchCalls("GetNodeMetrics", FetchNodeNames)
       \/ /\ nodeList \in NodeItemLists
          /\ metricsList = <<>> /\ podList = <<>>
          /\ call \in FetchCalls("GetNodeResources", FetchNodeNames)

fetchInputs == <<podList, metricsList, nodeList, pctVars, fmtVars, runVars,
                 nodeResources, combined>>

\* the listing succeeded: filter by name, convert each item
CallGetPodMetrics ==
    /\ pc = "start" /\ call.fn = "GetPodMetrics"
    /\ metrics' = GetPodMetrics(metricsList, call.names)
    /\ pc' = "fetched"
    /\ UNCHANGED <<fetchInputs, resources, nodes, err>>

CallGetPodResources ==
    /\ pc = "start" /\ call.fn = "GetPodResources"
    /\ resources' = GetPodResources(podList, call.names)
    /\ pc' = "fetched"
    /\ UNCHANGED <<fetchInputs, metrics, nodes, err>>

CallGetNodeMetrics ==
    /\ pc = "start" /\ call.fn = "GetNodeMetrics"
    /\ metrics' = GetNodeMetrics(metricsList, call.names)
    /\ pc' = "fetched"
    /\ UNCHANGED <<fetchInputs, resources, nodes, err>>

CallGetNodeResources ==
    /\ pc = "start" /\ call.fn = "GetNodeResources"
    /\ nodes' = GetNodeResources(nodeList, call.names)
    /\ pc' = "fetched"
    /\ UNCHANGED <<fetchInputs, metrics, resources, err>>

\* the listing failed: return nil and the wrapped error
CallFetchFails ==
    /\ pc = "start"
    /\ err' = FetchError(call.fn)
    /\ pc' = "fetchFailed"
    /\ UNCHANGED <<fetchInputs, metrics, resources, nodes>>

NextFetch ==
    \/ CallGetPodMetrics
    \/ CallGetPodResources
    \/ CallGetNodeMetrics
    \/ CallGetNodeResources
    \/ CallFetchFails

SpecFetch == InitFetch /\ [][NextFetch]_vars

(***************************************************************************)
(* The name filter of the fetchers.                                        *)
(***************************************************************************)
NamesGiven == {call.names[k] : k \in 1..Len(call.names)}

\* the items of a listing the call asks for, in listing order
Wanted(items) ==
    LET Asked(x) == call.names = <<>> \/ x.Name \in NamesGiven
    IN  SelectSeq(items, Asked)

PodKeysOf(xs) == [k \in 1..Len(xs) |-> <<xs[k].Namespace, xs[k].Name>>]
NamesOf(xs) == [k \in 1..Len(xs) |-> xs[k].Name]

\* C30: when a non-empty list of names is given, GetPodMetrics,
\* GetPodResources, GetNodeMetrics and GetNodeResources return exactly the
\* listed entities whose name is in that list (never an entity outside it,
\* each at most once), and when the list is empty they return every listed
\* entity.
C30_NameFilter ==
    pc = "fetched" =>
       /\ call.fn = "GetPodMetrics" =>
             PodKeysOf(metrics) = PodKeysOf(Wanted(metricsList))
       /\ call.fn = "GetPodResources" =>
             PodKeysOf(resources) = PodKeysOf(Wanted(podList))
       /\ call.fn = "GetNodeMetrics" =>
             NamesOf(metrics) = NamesOf(Wanted(metricsList))
       /\ call.fn = "GetNodeResources" =>
             /\ DOMAIN nodes = {x.Name : x \in {Wanted(nodeList)[k] :
                                                 k \in 1..Len(Wanted(nodeList))}}
             /\ \A n \in DOMAIN nodes :
                   \E k \in 1..Len(nodeList) : nodeList[k] = nodes[n] /\ nodes[n].Name = n

\* C30 witness: the name web given twice selects the pod web once, and not
\* the pod db.
C30_Witness ==
    /\ pc = "fetched"
    /\ call = [fn |-> "GetPodResources", names |-> <<"web", "web">>]
    /\ PodKeysOf(podList) = << <<"default", "db">>, <<"default", "web">> >>
    /\ PodKeysOf(resources) = << <<"default", "web">> >>

\* C30 witness for the empty list: every listed node is returned.
C30_AllWitness ==
    /\ pc = "fetched"
    /\ call = [fn |-> "GetNodeResources", names |-> <<>>]
    /\ DOMAIN nodes = {"node1", "node2"}

====
